---- MODULE Spec2Model ----
(***************************************************************************)
(* Model of the AI chat pipeline of DevSolves: the admission controller    *)
(* (lib/auth/aiRateLimit), the streaming relay (lib/ai/openai) and the two  *)
(* route handlers that coordinate them (api/chat/messages and               *)
(* api/chat/regenerate).                                                    *)
(*                                                                          *)
(* Every `await` of a handler is a scheduling point: an action is the      *)
(* resolution of the awaited operation followed by the synchronous code up  *)
(* to the next `await` (or to the return, `finally` block included).        *)
(***************************************************************************)
EXTENDS Integers, Sequences, FiniteSets, TLC

VARIABLES
    now,                 \* Date.now(), in milliseconds
    ticks,               \* clock advances made so far
    rateLimitStore,      \* lib/auth/rateLimit: key -> window entry
    concurrentRequests,  \* aiRateLimit: Map<userId, number>
    lastCall,            \* direct calls: the last call of the admission controller and its result
    apiKey,              \* whether OPENAI_API_KEY is configured
    pc,                  \* per request: the await the handler is suspended at
    req,                 \* per request: the handler's local variables
    response,            \* per request: the Response the handler returned
    stream,              \* per request: the relay (createStreamingCompletion) and its ReadableStream
    task,                \* per request: the onComplete callback's position
    hist,                \* per request: startRequest / endRequest calls it made
    userDocs,            \* User collection
    conversations,       \* Conversation collection
    messages,            \* Message collection, in creation order
    usageLog,            \* AIUsageLog collection
    client               \* useChat: the state of the hook and the position of sendMessage

clockVars == <<now, ticks>>
admVars == <<rateLimitStore, concurrentRequests>>
callVars == <<lastCall>>
reqVars == <<pc, req, response>>
dbVars == <<userDocs, conversations, messages, usageLog>>

vars == <<now, ticks, rateLimitStore, concurrentRequests, lastCall, apiKey,
          pc, req, response, stream, task, hist,
          userDocs, conversations, messages, usageLog, client>>

(***************************************************************************)
(* Bounds of the model                                                     *)
(***************************************************************************)
MaxTicks == 2            \* clock advances per behaviour of SpecAdmission
MaxExtraCalls == 2       \* direct startRequest calls allowed beyond the caller's tier cap
NumRequests == 2         \* HTTP requests per behaviour of Spec
CapRequests == 3         \* HTTP requests per behaviour of SpecCap
MaxReads == 1            \* body reads that deliver a chunk, per response, in Spec
MaxRelayReads == 4       \* body reads that deliver a chunk, in SpecRelay
MaxChecks == 60          \* checkAIRateLimit calls counted in one window of SpecAdmission
MaxInput == 3            \* messages in an input sequence of buildContext
MaxClientReads == 3      \* reads of the response body that deliver a chunk to the hook

(***************************************************************************)
(* Optional values (`x?: T`): <<>> is undefined, <<v>> is v                 *)
(***************************************************************************)
None == <<>>
Some(v) == <<v>>

CeilDiv(a, b) == IF a % b = 0 THEN a \div b ELSE (a \div b) + 1

MaxOf(a, b) == IF a >= b THEN a ELSE b

(***************************************************************************)
(* aiRateLimit configuration                                               *)
(***************************************************************************)
Users == {"u1"}
Roles == {"user", "moderator", "admin", "guest"}   \* "guest" is a role the table does not know

AI_RATE_LIMITS ==
    [ user      |-> [messagesPerHour |-> 50,  dailyTokenLimit |-> 100000,
                     maxTokensPerRequest |-> 4096,  maxConcurrentRequests |-> 2],
      moderator |-> [messagesPerHour |-> 100, dailyTokenLimit |-> 200000,
                     maxTokensPerRequest |-> 8192,  maxConcurrentRequests |-> 3],
      admin     |-> [messagesPerHour |-> 500, dailyTokenLimit |-> 1000000,
                     maxTokensPerRequest |-> 16384, maxConcurrentRequests |-> 5] ]

MESSAGE_RATE_LIMIT == [windowMs |-> 60 * 60 * 1000, maxRequests |-> 50]

\* a variant of getAIRateLimits without the fallback: a role the table does not
\* know gets a tier that allows nothing
getAIRateLimitsNoFallback(userRole) ==
    IF userRole \in DOMAIN AI_RATE_LIMITS THEN AI_RATE_LIMITS[userRole]
    ELSE [messagesPerHour |-> 0, dailyTokenLimit |-> 0,
          maxTokensPerRequest |-> 0, maxConcurrentRequests |-> 0]

\* AI_RATE_LIMITS[userRole] || AI_RATE_LIMITS.user
getAIRateLimits(userRole) ==
    IF userRole \in DOMAIN AI_RATE_LIMITS THEN AI_RATE_LIMITS[userRole]
                                          ELSE AI_RATE_LIMITS["user"]

(***************************************************************************)
(* lib/auth/rateLimit: the message-rate window.  A timestamped counter     *)
(* window per key: created on first use, mutated on each check, expired     *)
(* when the window has elapsed.                                             *)
(***************************************************************************)
NoEntry == [count |-> 0, resetTime |-> 0]

getRateLimitKey(userId, scope) == <<userId, scope>>

RateKeys == {getRateLimitKey(u, "ai-chat") : u \in Users}

\* the result of a check and the store after it
checkRateLimit(key, config) ==
    LET entry == rateLimitStore[key] IN
    IF entry = NoEntry \/ now >= entry.resetTime
    THEN [allowed |-> TRUE, remaining |-> config.maxRequests - 1,
          resetIn |-> config.windowMs,
          store |-> [rateLimitStore EXCEPT
                        ![key] = [count |-> 1, resetTime |-> now + config.windowMs]]]
    ELSE IF entry.count >= config.maxRequests
    THEN [allowed |-> FALSE, remaining |-> 0,
          resetIn |-> entry.resetTime - now,
          store |-> rateLimitStore]
    ELSE [allowed |-> TRUE, remaining |-> config.maxRequests - (entry.count + 1),
          resetIn |-> entry.resetTime - now,
          store |-> [rateLimitStore EXCEPT ![key].count = entry.count + 1]]

(***************************************************************************)
(* aiRateLimit: checkAIRateLimit, startRequest, endRequest                  *)
(***************************************************************************)
REASON_RATE == "Message rate limit exceeded. Please wait before sending more messages."
REASON_TOKENS == "Daily token limit exceeded. Your limit resets at midnight."
REASON_CONCURRENT == "Too many concurrent requests. Please wait for current requests to complete."

\* a variant of checkAIRateLimit that admits a caller whose counter equals the cap
checkAIRateLimitAboveCap(userId, userRole, currentDailyTokens) ==
    LET limits == getAIRateLimits(userRole)
        rateLimit == checkRateLimit(getRateLimitKey(userId, "ai-chat"),
                        [windowMs |-> MESSAGE_RATE_LIMIT.windowMs,
                         maxRequests |-> limits.messagesPerHour])
        concurrent == concurrentRequests[userId]
    IN
    IF ~rateLimit.allowed
    THEN [allowed |-> FALSE, reason |-> Some(REASON_RATE), remaining |-> None,
          retryAfter |-> Some(CeilDiv(rateLimit.resetIn, 1000)),
          store |-> rateLimit.store]
    ELSE IF currentDailyTokens >= limits.dailyTokenLimit
    THEN [allowed |-> FALSE, reason |-> Some(REASON_TOKENS),
          remaining |-> Some([messages |-> rateLimit.remaining, tokens |-> 0]),
          retryAfter |-> None,
          store |-> rateLimit.store]
    ELSE IF concurrent > limits.maxConcurrentRequests
    THEN [allowed |-> FALSE, reason |-> Some(REASON_CONCURRENT), remaining |-> None,
          retryAfter |-> None,
          store |-> rateLimit.store]
    ELSE [allowed |-> TRUE, reason |-> None,
          remaining |-> Some([messages |-> rateLimit.remaining,
                              tokens |-> limits.dailyTokenLimit - currentDailyTokens]),
          retryAfter |-> None,
          store |-> rateLimit.store]

\* a variant of checkAIRateLimit that checks the concurrency cap before the quota
checkAIRateLimitQuotaLast(userId, userRole, currentDailyTokens) ==
    LET limits == getAIRateLimits(userRole)
        rateLimit == checkRateLimit(getRateLimitKey(userId, "ai-chat"),
                        [windowMs |-> MESSAGE_RATE_LIMIT.windowMs,
                         maxRequests |-> limits.messagesPerHour])
        concurrent == concurrentRequests[userId]
    IN
    IF ~rateLimit.allowed
    THEN [allowed |-> FALSE, reason |-> Some(REASON_RATE), remaining |-> None,
          retryAfter |-> Some(CeilDiv(rateLimit.resetIn, 1000)),
          store |-> rateLimit.store]
    ELSE IF concurrent >= limits.maxConcurrentRequests
    THEN [allowed |-> FALSE, reason |-> Some(REASON_CONCURRENT), remaining |-> None,
          retryAfter |-> None,
          store |-> rateLimit.store]
    ELSE IF currentDailyTokens >= limits.dailyTokenLimit
    THEN [allowed |-> FALSE, reason |-> Some(REASON_TOKENS),
          remaining |-> Some([messages |-> rateLimit.remaining, tokens |-> 0]),
          retryAfter |-> None,
          store |-> rateLimit.store]
    ELSE [allowed |-> TRUE, reason |-> None,
          remaining |-> Some([messages |-> rateLimit.remaining,
                              tokens |-> limits.dailyTokenLimit - currentDailyTokens]),
          retryAfter |-> None,
          store |-> rateLimit.store]

\* the AIRateLimitResult, and (field store) the rate-limit store after the call
checkAIRateLimit(userId, userRole, currentDailyTokens) ==
    LET limits == getAIRateLimits(userRole)
        rateLimit == checkRateLimit(getRateLimitKey(userId, "ai-chat"),
                        [windowMs |-> MESSAGE_RATE_LIMIT.windowMs,
                         maxRequests |-> limits.messagesPerHour])
        concurrent == concurrentRequests[userId]
    IN
    IF ~rateLimit.allowed
    THEN [allowed |-> FALSE, reason |-> Some(REASON_RATE), remaining |-> None,
          retryAfter |-> Some(CeilDiv(rateLimit.resetIn, 1000)),
          store |-> rateLimit.store]
    ELSE IF currentDailyTokens >= limits.dailyTokenLimit
    THEN [allowed |-> FALSE, reason |-> Some(REASON_TOKENS),
          remaining |-> Some([messages |-> rateLimit.remaining, tokens |-> 0]),
          retryAfter |-> None,
          store |-> rateLimit.store]
    ELSE IF concurrent >= limits.maxConcurrentRequests
    THEN [allowed |-> FALSE, reason |-> Some(REASON_CONCURRENT), remaining |-> None,
          retryAfter |-> None,
          store |-> rateLimit.store]
    ELSE [allowed |-> TRUE, reason |-> None,
          remaining |-> Some([messages |-> rateLimit.remaining,
                              tokens |-> limits.dailyTokenLimit - currentDailyTokens]),
          retryAfter |-> None,
          store |-> rateLimit.store]

\* concurrentRequests after startRequest(userId)
startRequest(userId) ==
    LET current == concurrentRequests[userId] IN
    [concurrentRequests EXCEPT ![userId] = current + 1]

\* a variant of endRequest without the guard `current > 0`
endRequestUnguarded(userId) ==
    LET current == concurrentRequests[userId] IN
    [concurrentRequests EXCEPT ![userId] = current - 1]

\* concurrentRequests after endRequest(userId)
endRequest(userId) ==
    LET current == concurrentRequests[userId] IN
    IF current > 0 THEN [concurrentRequests EXCEPT ![userId] = current - 1]
                   ELSE concurrentRequests


(***************************************************************************)
(* Time                                                                    *)
(***************************************************************************)
DAY_MS == 24 * 60 * 60 * 1000
TickMs == 30 * 60 * 1000         \* the clock advances in steps of half an hour

\* the UTC calendar date (year, month, day) of a timestamp, as a day number
UTCDay(t) == t \div DAY_MS

\* a variant of shouldResetDailyLimits that asks for a full day to have passed
shouldResetDailyLimitsAfterDay(lastResetAt) ==
    IF lastResetAt = None THEN TRUE
    ELSE now - lastResetAt[1] >= DAY_MS

\* shouldResetDailyLimits(lastResetAt?: Date), lastResetAt an optional timestamp
shouldResetDailyLimits(lastResetAt) ==
    IF lastResetAt = None THEN TRUE
    ELSE UTCDay(now) # UTCDay(lastResetAt[1])

(***************************************************************************)
(* Text: a string is a sequence of symbols.  "data: " and "[DONE]" are      *)
(* single symbols, " " is white space, "\n" the line feed.                  *)
(***************************************************************************)
RECURSIVE TrimStart(_)
TrimStart(s) == IF s # <<>> /\ Head(s) \in {" ", "\n"} THEN TrimStart(Tail(s)) ELSE s

RECURSIVE TrimEnd(_)
TrimEnd(s) ==
    IF s # <<>> /\ s[Len(s)] \in {" ", "\n"} THEN TrimEnd(SubSeq(s, 1, Len(s) - 1)) ELSE s

\* String.prototype.trim
Trim(s) == TrimEnd(TrimStart(s))

(***************************************************************************)
(* Message text.  The content of a message is a sequence of runs <<w, n>>: *)
(* the first n characters of the word w repeated without end, n >= 1.      *)
(* <<"x", 32001>> is 32001 letters x, <<"jailbreak", 9>> the word itself.  *)
(***************************************************************************)
Run(w, n) == <<w, n>>

\* String.prototype.length
RECURSIVE Length(_)
Length(t) == IF t = <<>> THEN 0 ELSE Head(t)[2] + Length(Tail(t))

\* String.prototype.substring(0, end); a negative end counts as 0
RECURSIVE Substring(_, _)
Substring(t, end) ==
    IF t = <<>> \/ end <= 0 THEN <<>>
    ELSE IF Head(t)[2] <= end
         THEN <<Head(t)>> \o Substring(Tail(t), end - Head(t)[2])
    ELSE <<Run(Head(t)[1], end)>>

WhiteSpace == {" ", "\n"}

RECURSIVE TrimTextStart(_)
TrimTextStart(t) ==
    IF t # <<>> /\ Head(t)[1] \in WhiteSpace THEN TrimTextStart(Tail(t)) ELSE t

RECURSIVE TrimTextEnd(_)
TrimTextEnd(t) ==
    IF t # <<>> /\ t[Len(t)][1] \in WhiteSpace
    THEN TrimTextEnd(SubSeq(t, 1, Len(t) - 1)) ELSE t

\* String.prototype.trim on message text
TrimText(t) == TrimTextEnd(TrimTextStart(t))

\* a string of the relay (a sequence of one-character symbols) as message text
RECURSIVE TextOf(_)
TextOf(symbols) ==
    IF symbols = <<>> THEN <<>> ELSE <<Run(Head(symbols), 1)>> \o TextOf(Tail(symbols))

(***************************************************************************)
(* System prompts (systemPrompt.ts)                                        *)
(***************************************************************************)
CURRENT_PROMPT_VERSION == "1.1.0"

\* version -> content; the content of a prompt is one run of its own text
SYSTEM_PROMPTS ==
    [v \in {"1.0.0", "1.1.0"} |->
        IF v = "1.0.0" THEN <<Run("You are a professional AI assistant. ...", 300)>>
        ELSE <<Run("You are DevSolve AI, a professional coding assistant. ...", 559)>>]

\* getSystemPrompt(version?): `version || CURRENT_PROMPT_VERSION`, then
\* `SYSTEM_PROMPTS[v] || SYSTEM_PROMPTS[CURRENT_PROMPT_VERSION]`
getSystemPrompt(version) ==
    LET v == IF version = None \/ version = Some("") THEN CURRENT_PROMPT_VERSION
             ELSE version[1]
    IN IF v \in DOMAIN SYSTEM_PROMPTS
       THEN [version |-> v, content |-> SYSTEM_PROMPTS[v]]
       ELSE [version |-> CURRENT_PROMPT_VERSION,
             content |-> SYSTEM_PROMPTS[CURRENT_PROMPT_VERSION]]

getSystemPromptContent(version) == getSystemPrompt(version).content

(***************************************************************************)
(* Context manager (contextManager.ts)                                     *)
(***************************************************************************)
MAX_CONTEXT_MESSAGES == 15
MAX_MESSAGE_CHARS == 32000
MAX_CONTEXT_CHARS == 80000
CHARS_PER_TOKEN == 4

\* the value of an optional parameter or option, d when it is not given
Default(opt, d) == IF opt = None THEN d ELSE opt[1]

estimateTokens(text) == CeilDiv(Length(text), CHARS_PER_TOKEN)

RECURSIVE estimateMessagesTokens(_)
estimateMessagesTokens(msgs) ==
    IF msgs = <<>> THEN 0
    ELSE estimateTokens(Head(msgs).content) + 4 + estimateMessagesTokens(Tail(msgs))

\* '\n\n[Message truncated due to length...]'
TRUNCATION_MARKER == <<Run("\n\n[Message truncated due to length...]", 38)>>

\* truncateMessage(content, maxChars = MAX_MESSAGE_CHARS)
truncateMessage(content, maxChars) ==
    IF Length(content) <= maxChars THEN content
    ELSE Substring(content, maxChars - 100) \o TRUNCATION_MARKER

\* a variant of slice that starts one element early
sliceOneEarly(s, start) ==
    LET from == IF start < 0 THEN MaxOf(Len(s) + start - 1, 0)
                ELSE IF start > Len(s) THEN Len(s) ELSE start
    IN SubSeq(s, from + 1, Len(s))

\* Array.prototype.slice(start): a negative start counts from the end
slice(s, start) ==
    LET from == IF start < 0 THEN MaxOf(Len(s) + start, 0)
                ELSE IF start > Len(s) THEN Len(s) ELSE start
    IN SubSeq(s, from + 1, Len(s))

RECURSIVE SumOfLengths(_)
SumOfLengths(msgs) ==
    IF msgs = <<>> THEN 0 ELSE Length(Head(msgs).content) + SumOfLengths(Tail(msgs))

\* a variant of userAssistantMessages without the filter
RECURSIVE userAssistantMessagesUnfiltered(_)
userAssistantMessagesUnfiltered(msgs) ==
    IF msgs = <<>> THEN <<>>
    ELSE <<[Head(msgs) EXCEPT
              !.content = truncateMessage(Head(msgs).content, MAX_MESSAGE_CHARS)]>>
         \o userAssistantMessagesUnfiltered(Tail(msgs))

\* messages.filter(msg => msg.role !== 'system').map(truncateMessage)
RECURSIVE userAssistantMessages(_)
userAssistantMessages(msgs) ==
    IF msgs = <<>> THEN <<>>
    ELSE (IF Head(msgs).role # "system"
          THEN <<[Head(msgs) EXCEPT
                    !.content = truncateMessage(Head(msgs).content, MAX_MESSAGE_CHARS)]>>
          ELSE <<>>) \o userAssistantMessages(Tail(msgs))

\* a variant of TrimToBudget that removes nothing
TrimToBudgetSkipped(trimmedMessages, currentChars, trimmedCount, maxChars) ==
    [trimmedMessages |-> trimmedMessages, trimmedCount |-> trimmedCount]

\* a variant of TrimToBudget that may remove the last message as well
RECURSIVE TrimToBudgetToEmpty(_, _, _, _)
TrimToBudgetToEmpty(trimmedMessages, currentChars, trimmedCount, maxChars) ==
    IF currentChars > maxChars /\ Len(trimmedMessages) > 0
    THEN TrimToBudgetToEmpty(Tail(trimmedMessages),
                             currentChars - Length(Head(trimmedMessages).content),
                             trimmedCount + 1, maxChars)
    ELSE [trimmedMessages |-> trimmedMessages, trimmedCount |-> trimmedCount]

\* while (currentChars > maxChars && trimmedMessages.length > 1) shift()
RECURSIVE TrimToBudget(_, _, _, _)
TrimToBudget(trimmedMessages, currentChars, trimmedCount, maxChars) ==
    IF currentChars > maxChars /\ Len(trimmedMessages) > 1
    THEN TrimToBudget(Tail(trimmedMessages),
                      currentChars - Length(Head(trimmedMessages).content),
                      trimmedCount + 1, maxChars)
    ELSE [trimmedMessages |-> trimmedMessages, trimmedCount |-> trimmedCount]

\* buildContext(messages, options = {}); every option is optional
NoOptions == [maxMessages |-> None, maxChars |-> None, systemPromptVersion |-> None,
              includeSystemPrompt |-> None]

buildContext(msgs, options) ==
    LET maxMessages == Default(options.maxMessages, MAX_CONTEXT_MESSAGES)
        maxChars == Default(options.maxChars, MAX_CONTEXT_CHARS)
        systemPromptVersion == Default(options.systemPromptVersion, CURRENT_PROMPT_VERSION)
        includeSystemPrompt == Default(options.includeSystemPrompt, TRUE)
        systemPromptContent == getSystemPromptContent(Some(systemPromptVersion))
        systemMessage == [role |-> "system", content |-> systemPromptContent]
        kept == userAssistantMessages(msgs)
        lastN == slice(kept, 0 - maxMessages)
        dropped == MaxOf(0, Len(kept) - maxMessages)
        chars == (IF includeSystemPrompt THEN Length(systemPromptContent) ELSE 0)
                   + SumOfLengths(lastN)
        trimmed == TrimToBudget(lastN, chars, dropped, maxChars)
        finalMessages == IF includeSystemPrompt
                         THEN <<systemMessage>> \o trimmed.trimmedMessages
                         ELSE trimmed.trimmedMessages
    IN [messages |-> finalMessages,
        systemPromptVersion |-> systemPromptVersion,
        estimatedTokens |-> estimateMessagesTokens(finalMessages),
        trimmedCount |-> trimmed.trimmedCount]

\* the words of the suspicious patterns, /ignore.*previous.*instructions/i,
\* /ignore.*all.*rules/i, /system.*prompt/i, /jailbreak/i
suspiciousPatterns ==
    << <<Run("ignore", 6), Run("previous", 8), Run("instructions", 12)>>,
       <<Run("ignore", 6), Run("all", 3), Run("rules", 5)>>,
       <<Run("system", 6), Run("prompt", 6)>>,
       <<Run("jailbreak", 9)>> >>

\* the flag i: upper-case words compare as their lower-case form
toLowerCase(w) ==
    IF w = "JAILBREAK" THEN "jailbreak" ELSE IF w = "System" THEN "system" ELSE w

\* the run holds the whole word
HoldsWord(run, word) == toLowerCase(run[1]) = word[1] /\ run[2] >= word[2]

\* the rest of a pattern, from the end of the word matched before: `.*` does not
\* go over a line feed
RECURSIVE TestRest(_, _)
TestRest(pattern, t) ==
    \/ pattern = <<>>
    \/ \E i \in 1 .. Len(t) :
          /\ HoldsWord(t[i], Head(pattern))
          /\ \A k \in 1 .. (i - 1) : t[k][1] # "\n"
          /\ TestRest(Tail(pattern), SubSeq(t, i + 1, Len(t)))

\* RegExp.prototype.test
test(pattern, t) ==
    \E i \in 1 .. Len(t) :
        /\ HoldsWord(t[i], Head(pattern))
        /\ TestRest(Tail(pattern), SubSeq(t, i + 1, Len(t)))

\* a variant of validateUserInput that rejects what matches a suspicious pattern
validateUserInputBlocking(content) ==
    IF content = None \/ content = Some(<<>>)
    THEN [valid |-> FALSE, error |-> "Message content is required", warned |-> FALSE]
    ELSE LET trimmed == TrimText(content[1]) IN
         IF Length(trimmed) = 0
         THEN [valid |-> FALSE, error |-> "Message cannot be empty", warned |-> FALSE]
         ELSE IF Length(trimmed) > MAX_MESSAGE_CHARS
         THEN [valid |-> FALSE, error |-> "Message too long", warned |-> FALSE]
         ELSE IF \E i \in 1 .. Len(suspiciousPatterns) : test(suspiciousPatterns[i], trimmed)
         THEN [valid |-> FALSE, error |-> "Message not allowed", warned |-> TRUE]
         ELSE [valid |-> TRUE, error |-> "", warned |-> FALSE]

\* validateUserInput(content), content missing (None) or a string; warned: the
\* console.warn of the suspicious-pattern scan, which does not change the result
validateUserInput(content) ==
    IF content = None \/ content = Some(<<>>)
    THEN [valid |-> FALSE, error |-> "Message content is required", warned |-> FALSE]
    ELSE LET trimmed == TrimText(content[1]) IN
         IF Length(trimmed) = 0
         THEN [valid |-> FALSE, error |-> "Message cannot be empty", warned |-> FALSE]
         ELSE IF Length(trimmed) > MAX_MESSAGE_CHARS
         THEN [valid |-> FALSE, error |-> "Message too long", warned |-> FALSE]
         ELSE [valid |-> TRUE, error |-> "",
               warned |-> \E i \in 1 .. Len(suspiciousPatterns) :
                              test(suspiciousPatterns[i], trimmed)]

(***************************************************************************)
(* Requests, collections                                                   *)
(***************************************************************************)
Requests == 1 .. MaxOf(NumRequests, CapRequests)
ConversationIds == {"c1"}
UnknownConversationId == "c9"

\* the identities the authentication layer resolves a request to
Identities == {[userId |-> "u1", role |-> "user"]}

\* request bodies: content and conversationId
Contents == {None, Some(<<Run(" ", 1)>>), Some(<<Run(" ", 1), Run("hi", 2)>>)}
BodyConversationIds == {None, Some("c1"), Some(UnknownConversationId)}

NoReq == [kind |-> "none", userId |-> None, role |-> None, content |-> <<>>, conversationId |-> None,
          dbUser |-> None, title |-> None, systemPromptVersion |-> None,
          lastAssistantMessage |-> None, context |-> <<>>]

NoResponse == [status |-> 0, error |-> None, retryAfter |-> None, streaming |-> FALSE]

JsonResponse(status, error, retryAfter) ==
    [status |-> status, error |-> Some(error), retryAfter |-> retryAfter, streaming |-> FALSE]

StreamResponse == [status |-> 200, error |-> None, retryAfter |-> None, streaming |-> TRUE]

NoUsage == [inputTokens |-> 0, outputTokens |-> 0, totalTokens |-> 0]

\* at: the await start() is suspended at ("none": not created, "end": start() is over)
\* status: the ReadableStream as its consumer sees it
\* fetched: what the upstream answered to the fetch, received: what its body has
\* delivered so far (both kept for the properties)
\* signal: options.signal ("none": not passed, "given", "aborted"), and the number
\* of reads done when the caller aborted it
\* messages: the context the relay sends upstream, held while start() runs
NoStream == [at |-> "none", status |-> "none", timeoutArmed |-> FALSE, aborted |-> FALSE,
             signal |-> "none", abortedAtRead |-> 0,
             messages |-> <<>>, fetched |-> None, reads |-> 0, received |-> <<>>,
             buffer |-> <<>>, fullContent |-> <<>>, inputTokens |-> 0, outputTokens |-> 0,
             wire |-> <<>>, onCompleteCalls |-> 0, onErrorCalls |-> 0]

NoTask == [at |-> "none", content |-> <<>>, usage |-> NoUsage]

\* per request, kept for the properties: the calls of startRequest and endRequest
\* it made, the _id of the message it asked to delete, the documents that delete
\* removed and the decrements it applied to its conversation
NoHist == [starts |-> 0, ends |-> 0, deleted |-> None, removed |-> 0, decrements |-> 0]

\* a direct call: its arguments, the time of the call, the caller's concurrency
\* counter and window entry before it, and what checkAIRateLimit returned
NoCall == [op |-> "none", userId |-> None, role |-> None, tokens |-> 0, at |-> 0,
           concurrentBefore |-> 0, entryBefore |-> NoEntry, result |-> None]

NewAiUsage == [dailyTokensUsed |-> 0, totalTokensUsed |-> 0, dailyMessages |-> 0,
               dailyResetAt |-> None]

NewConversation == [userId |-> "u1", title |-> "New Chat",
                    systemPromptVersion |-> CURRENT_PROMPT_VERSION,
                    messageCount |-> 0, totalTokens |-> 0]

\* findOne({conversationId, role}).sort({createdAt: -1}): the newest document
\* of a collection that matches
LastWithRole(msgs, conversationId, role) ==
    LET idx == {i \in 1 .. Len(msgs) :
                    msgs[i].conversationId = conversationId /\ msgs[i].role = role}
    IN IF idx = {} THEN None
       ELSE Some(msgs[CHOOSE i \in idx : \A j \in idx : j <= i])

\* _id of the message a request creates
MessageId(r, role) == <<r, role>>

RECURSIVE RemoveId(_, _)
RemoveId(msgs, id) ==
    IF msgs = <<>> THEN <<>>
    ELSE IF Head(msgs).id = id THEN Tail(msgs)
    ELSE <<Head(msgs)>> \o RemoveId(Tail(msgs), id)

CountOf(msgs, conversationId) ==
    Cardinality({i \in 1 .. Len(msgs) :
                    msgs[i].conversationId = conversationId /\ msgs[i].role # "system"})


(***************************************************************************)
(* The relay's parsing of the upstream body (openai.ts 152-186)            *)
(***************************************************************************)
\* upstream usage counters carried by the symbol "U" of a frame
UsageFrame == [prompt_tokens |-> 96000, completion_tokens |-> 4000]

RECURSIVE Filter(_, _)
Filter(s, keep) ==
    IF s = <<>> THEN <<>>
    ELSE IF Head(s) \in keep THEN <<Head(s)>> \o Filter(Tail(s), keep)
    ELSE Filter(Tail(s), keep)

\* JSON.parse of a frame's payload: "{" body "}", body made of the content
\* symbols "a" and "b", the usage symbol "U" and white space
JSONparse(payload) ==
    LET p == Trim(payload)
        inner == SubSeq(p, 2, Len(p) - 1)
    IN IF /\ Len(p) >= 2
          /\ p[1] = "{"
          /\ p[Len(p)] = "}"
          /\ \A i \in 1 .. Len(inner) : inner[i] \in {"a", "b", "U", " "}
       THEN [ok |-> TRUE, content |-> Filter(inner, {"a", "b"}),
             usage |-> IF \E i \in 1 .. Len(inner) : inner[i] = "U"
                       THEN Some(UsageFrame) ELSE None]
       ELSE [ok |-> FALSE, content |-> <<>>, usage |-> None]

\* String.prototype.split('\n'): the pieces between line feeds, at least one
RECURSIVE SplitLines(_, _)
SplitLines(s, cur) ==
    IF s = <<>> THEN <<cur>>
    ELSE IF Head(s) = "\n" THEN <<cur>> \o SplitLines(Tail(s), <<>>)
    ELSE SplitLines(Tail(s), Append(cur, Head(s)))

TokenEvent(text) == [type |-> "token", text |-> text, usage |-> None]
DoneEvent(content, usage) == [type |-> "done", text |-> content, usage |-> Some(usage)]
ErrorEvent(message) == [type |-> "error", text |-> message, usage |-> None]

\* a variant of ProcessLine that sends the done frame when the upstream's [DONE]
\* marker arrives
ProcessLineDoneOnMarker(st, line) ==
    LET trimmedLine == Trim(line) IN
    IF trimmedLine = <<>> THEN st
    ELSE IF trimmedLine = <<"data: ", "[DONE]">>
    THEN [st EXCEPT !.wire = Append(st.wire, DoneEvent(st.fullContent, NoUsage))]
    ELSE IF Head(trimmedLine) = "data: "
    THEN LET json == JSONparse(Tail(trimmedLine))
             st1 == IF json.ok /\ json.content # <<>>
                    THEN [st EXCEPT !.fullContent = st.fullContent \o json.content,
                                    !.wire = Append(st.wire, TokenEvent(json.content))]
                    ELSE st
             st2 == IF json.ok /\ json.usage # None
                    THEN [st1 EXCEPT !.inputTokens = json.usage[1].prompt_tokens,
                                     !.outputTokens = json.usage[1].completion_tokens]
                    ELSE st1
         IN st2
    ELSE st

\* a variant of ProcessLine that ends the stream with an Error event on a line
\* that is not a frame that parses
ProcessLineAbortOnMalformed(st, line) ==
    LET trimmedLine == Trim(line)
        abort == [st EXCEPT !.wire = Append(st.wire, ErrorEvent(<<"Unexpected token">>)),
                            !.status = "closed"]
    IN
    IF trimmedLine = <<>> \/ trimmedLine = <<"data: ", "[DONE]">> THEN st
    ELSE IF Head(trimmedLine) = "data: "
    THEN LET json == JSONparse(Tail(trimmedLine))
             st1 == IF json.ok /\ json.content # <<>>
                    THEN [st EXCEPT !.fullContent = st.fullContent \o json.content,
                                    !.wire = Append(st.wire, TokenEvent(json.content))]
                    ELSE st
             st2 == IF json.ok /\ json.usage # None
                    THEN [st1 EXCEPT !.inputTokens = json.usage[1].prompt_tokens,
                                     !.outputTokens = json.usage[1].completion_tokens]
                    ELSE st1
         IN IF json.ok THEN st2 ELSE abort
    ELSE abort

\* the body of `for (const line of lines)`, on the relay's record st
ProcessLine(st, line) ==
    LET trimmedLine == Trim(line) IN
    IF trimmedLine = <<>> \/ trimmedLine = <<"data: ", "[DONE]">> THEN st
    ELSE IF Head(trimmedLine) = "data: "
    THEN LET json == JSONparse(Tail(trimmedLine))
             st1 == IF json.ok /\ json.content # <<>>
                    THEN [st EXCEPT !.fullContent = st.fullContent \o json.content,
                                    !.wire = Append(st.wire, TokenEvent(json.content))]
                    ELSE st
             st2 == IF json.ok /\ json.usage # None
                    THEN [st1 EXCEPT !.inputTokens = json.usage[1].prompt_tokens,
                                     !.outputTokens = json.usage[1].completion_tokens]
                    ELSE st1
         IN st2
    ELSE st

RECURSIVE ProcessLines(_, _)
ProcessLines(st, lines) ==
    IF lines = <<>> THEN st
    ELSE ProcessLines(ProcessLine(st, Head(lines)), Tail(lines))

\* a variant of ProcessChunk that does not carry the unfinished line over to the
\* next read
ProcessChunkNoCarry(st, value) ==
    LET lines == SplitLines(value, <<>>)
        st1 == [st EXCEPT !.buffer = <<>>, !.reads = st.reads + 1,
                          !.received = st.received \o value]
    IN ProcessLines(st1, SubSeq(lines, 1, Len(lines) - 1))

\* a variant of ProcessChunk that also processes the line the chunk has not
\* finished yet
ProcessChunkEager(st, value) ==
    LET buffer == st.buffer \o value
        lines == SplitLines(buffer, <<>>)
        rest == lines[Len(lines)]
        st1 == [st EXCEPT !.buffer = rest, !.reads = st.reads + 1,
                          !.received = st.received \o value]
    IN ProcessLines(st1, lines)

\* one iteration of the read loop on a chunk `value`
ProcessChunk(st, value) ==
    LET buffer == st.buffer \o value
        lines == SplitLines(buffer, <<>>)
        rest == lines[Len(lines)]
        st1 == [st EXCEPT !.buffer = rest, !.reads = st.reads + 1,
                          !.received = st.received \o value]
    IN ProcessLines(st1, SubSeq(lines, 1, Len(lines) - 1))

\* start() is over: its local variables are gone, the stream keeps what was enqueued
EndOfStart(st) ==
    [NoStream EXCEPT !.at = "end", !.status = st.status, !.aborted = st.aborted,
                     !.fetched = st.fetched, !.received = st.received, !.wire = st.wire, !.onCompleteCalls = st.onCompleteCalls,
                     !.onErrorCalls = st.onErrorCalls]

\* the catch block of start(): clearTimeout, error frame, onError, close
FailStream(st, message) ==
    EndOfStart([st EXCEPT !.timeoutArmed = FALSE,
                          !.wire = Append(st.wire, ErrorEvent(message)),
                          !.onErrorCalls = st.onErrorCalls + 1,
                          !.status = "closed"])

\* const usage: TokenUsage = {...}
UsageOf(st) == [inputTokens |-> st.inputTokens, outputTokens |-> st.outputTokens,
                totalTokens |-> st.inputTokens + st.outputTokens]

\* the completion path of start(): done frame, onComplete, close
CompleteStream(st) ==
    EndOfStart([st EXCEPT !.wire = Append(st.wire, DoneEvent(st.fullContent, UsageOf(st))),
                          !.onCompleteCalls = st.onCompleteCalls + 1,
                          !.status = "closed"])

\* what the upstream answers to the fetch
\* errorBody: the message of the error body when it parses and has one
FetchOutcomes ==
    { [ok |-> TRUE,  hasBody |-> TRUE,  status |-> "200", errorBody |-> None],
      [ok |-> TRUE,  hasBody |-> FALSE, status |-> "200", errorBody |-> None],
      [ok |-> FALSE, hasBody |-> TRUE,  status |-> "429", errorBody |-> Some(<<"Rate limit reached">>)],
      [ok |-> FALSE, hasBody |-> TRUE,  status |-> "500", errorBody |-> None] }

\* the chunks a body read delivers in the route specification
RouteChunks == { <<"data: ", "{", "a", "U", "}", "\n">> }


(***************************************************************************)
(* Route handlers: POST /api/chat/messages ("send") and                    *)
(* POST /api/chat/regenerate ("regenerate")                                *)
(***************************************************************************)
\* the response of a handler's catch block
Failed(kind) ==
    JsonResponse(500, IF kind = "send" THEN "Failed to process message"
                      ELSE "Failed to regenerate response", None)

\* the locals of a handler (and of its callbacks) that is over
Gone(kind) == [NoReq EXCEPT !.kind = kind]

\* `return new Response(...)` (or the catch block's), then the finally block:
\* if (userId) endRequest(userId)
Return(r, kind, userId, resp) ==
    /\ pc' = [pc EXCEPT ![r] = "returned"]
    /\ response' = [response EXCEPT ![r] = resp]
    /\ req' = [req EXCEPT ![r] = Gone(kind)]
    /\ IF userId # None
       THEN /\ concurrentRequests' = endRequest(userId[1])
            /\ hist' = [hist EXCEPT ![r].ends = hist[r].ends + 1]
       ELSE UNCHANGED <<concurrentRequests, hist>>

\* a variant of ReturnResponse without the finally block
ReturnResponseNoFinally(r, userId, resp) ==
    /\ pc' = [pc EXCEPT ![r] = "returned"]
    /\ response' = [response EXCEPT ![r] = resp]
    /\ UNCHANGED <<req, concurrentRequests, hist>>

\* the SSE response is returned; the callbacks keep the handler's locals
ReturnResponse(r, userId, resp) ==
    /\ pc' = [pc EXCEPT ![r] = "returned"]
    /\ response' = [response EXCEPT ![r] = resp]
    /\ UNCHANGED req
    /\ IF userId # None
       THEN /\ concurrentRequests' = endRequest(userId[1])
            /\ hist' = [hist EXCEPT ![r].ends = hist[r].ends + 1]
       ELSE UNCHANGED <<concurrentRequests, hist>>

\* the handler goes on to its next await
Goto(r, label) ==
    /\ pc' = [pc EXCEPT ![r] = label]
    /\ UNCHANGED <<response, concurrentRequests, hist>>

\* The handler up to `await User.findById`: getCurrentUser, request.json, the
\* validation of the body, dbConnect.  These awaits touch no shared state, so they
\* are one step.  thrown: the awaited operation that rejects, if any.
\* Requests are numbered in their order of arrival; limit: how many may arrive.
Receive(r, limit) ==
    /\ pc[r] = "idle"
    /\ r <= limit
    /\ \A q \in Requests : q < r => pc[q] # "idle"
    /\ \E kind \in {"send", "regenerate"},
          user \in {None} \cup {Some(i) : i \in Identities},
          content \in Contents,
          conversationId \in BodyConversationIds,
          thrown \in {"none", "getCurrentUser", "json", "dbConnect"} :
          LET userId == IF user = None THEN None ELSE Some(user[1].userId)
              validation == IF kind = "send" THEN validateUserInput(content)
                            ELSE [valid |-> TRUE, error |-> ""]
              failed == Failed(kind)
          IN IF thrown = "getCurrentUser" THEN Return(r, kind, None, failed)
             ELSE IF user = None
             THEN Return(r, kind, None, JsonResponse(401, "Unauthorized", None))
             ELSE IF thrown = "json" THEN Return(r, kind, userId, failed)
             ELSE IF ~validation.valid
             THEN Return(r, kind, userId, JsonResponse(400, validation.error, None))
             ELSE IF conversationId = None
             THEN Return(r, kind, userId, JsonResponse(400, "Conversation ID is required", None))
             ELSE IF thrown = "dbConnect" THEN Return(r, kind, userId, failed)
             ELSE /\ req' = [req EXCEPT ![r] =
                                [NoReq EXCEPT !.kind = kind,
                                              !.userId = userId,
                                              !.role = Some(user[1].role),
                                              !.content = IF kind = "send" THEN TrimText(content[1]) ELSE <<>>,
                                              !.conversationId = conversationId]]
                  /\ Goto(r, "findUser")
    /\ UNCHANGED <<clockVars, rateLimitStore, callVars, apiKey, client, stream, task, dbVars>>

\* checkAIRateLimit and what follows up to the next await
CheckRate(r, dbUser) ==
    LET userId == req[r].userId[1]
        rateLimitResult == checkAIRateLimit(userId, req[r].role[1], dbUser.dailyTokensUsed)
    IN /\ rateLimitStore' = rateLimitResult.store
       /\ IF ~rateLimitResult.allowed
          THEN Return(r, req[r].kind, req[r].userId,
                      JsonResponse(429, rateLimitResult.reason[1], rateLimitResult.retryAfter))
          ELSE /\ Goto(r, "findConversation")
               /\ req' = [req EXCEPT ![r].dbUser = None]

\* await User.findById(userId); the lazy daily reset; the admission check
FindUser(r) ==
    /\ pc[r] = "findUser"
    /\ LET userId == req[r].userId[1]
           dbUser == userDocs[userId]
       IN IF dbUser = None
          THEN /\ Return(r, req[r].kind, req[r].userId, JsonResponse(404, "User not found", None))
               /\ UNCHANGED rateLimitStore
          ELSE IF shouldResetDailyLimits(dbUser[1].dailyResetAt)
          THEN /\ req' = [req EXCEPT ![r].dbUser =
                              Some([dbUser[1] EXCEPT !.dailyTokensUsed = 0,
                                                     !.dailyMessages = 0,
                                                     !.dailyResetAt = Some(now)])]
               /\ Goto(r, "saveUser")
               /\ UNCHANGED rateLimitStore
          ELSE CheckRate(r, dbUser[1])
    /\ UNCHANGED <<clockVars, callVars, apiKey, client, stream, task, dbVars>>

\* await dbUser.save(): writes the handler's copy of aiUsage; the admission check
SaveUser(r) ==
    /\ pc[r] = "saveUser"
    /\ userDocs' = [userDocs EXCEPT ![req[r].userId[1]] = req[r].dbUser]
    /\ CheckRate(r, req[r].dbUser[1])
    /\ UNCHANGED <<clockVars, callVars, apiKey, client, stream, task,
                   conversations, messages, usageLog>>

\* createStreamingCompletion(...): validateApiKey throws without a key; otherwise
\* the timeout is armed and start() runs up to its `await fetch`
createStreamingCompletion(msgs) ==
    IF apiKey
    THEN [NoStream EXCEPT !.at = "fetch", !.status = "open", !.timeoutArmed = TRUE,
                          !.messages = msgs]
    ELSE NoStream

\* startRequest(userId), then the call of createStreamingCompletion
StartStreaming(r, context) ==
    /\ concurrentRequests' = startRequest(req[r].userId[1])
    /\ hist' = [hist EXCEPT ![r].starts = hist[r].starts + 1]
    /\ stream' = [stream EXCEPT ![r] = createStreamingCompletion(context)]
    /\ pc' = [pc EXCEPT ![r] = "awaitStream"]
    /\ UNCHANGED <<response, req>>

\* a variant of FindConversation that has the relay created before the lookup
\* is answered
FindConversationAfterUpstream(r) ==
    /\ pc[r] = "findConversation"
    /\ LET id == req[r].conversationId[1]
           found == /\ id \in ConversationIds
                    /\ conversations[id] # None
                    /\ conversations[id][1].userId = req[r].userId[1]
       IN IF ~found
          THEN /\ Return(r, req[r].kind, req[r].userId,
                         JsonResponse(404, "Conversation not found", None))
               /\ stream' = [stream EXCEPT ![r] = createStreamingCompletion(<<>>)]
          ELSE /\ req' = [req EXCEPT ![r].title = Some(conversations[id][1].title),
                                      ![r].systemPromptVersion =
                                          Some(conversations[id][1].systemPromptVersion)]
               /\ Goto(r, IF req[r].kind = "send" THEN "findMessages" ELSE "findLastAssistant")
               /\ UNCHANGED stream
    /\ UNCHANGED <<clockVars, rateLimitStore, callVars, apiKey, client, task, dbVars>>

\* await Conversation.findOne({_id, userId})
FindConversation(r) ==
    /\ pc[r] = "findConversation"
    /\ LET id == req[r].conversationId[1]
           found == /\ id \in ConversationIds
                    /\ conversations[id] # None
                    /\ conversations[id][1].userId = req[r].userId[1]
       IN IF ~found
          THEN Return(r, req[r].kind, req[r].userId,
                      JsonResponse(404, "Conversation not found", None))
          ELSE /\ req' = [req EXCEPT ![r].title = Some(conversations[id][1].title),
                                      ![r].systemPromptVersion =
                                          Some(conversations[id][1].systemPromptVersion)]
               /\ Goto(r, IF req[r].kind = "send" THEN "findMessages" ELSE "findLastAssistant")
    /\ UNCHANGED <<clockVars, rateLimitStore, callVars, apiKey, client, stream, task, dbVars>>

\* regenerate: await Message.findOne({role: 'assistant'}).sort({createdAt: -1})
FindLastAssistant(r) ==
    /\ pc[r] = "findLastAssistant"
    /\ LET lastAssistantMessage ==
               LastWithRole(messages, req[r].conversationId[1], "assistant")
       IN /\ req' = [req EXCEPT ![r].lastAssistantMessage = lastAssistantMessage]
          /\ Goto(r, IF lastAssistantMessage # None THEN "deleteLastAssistant"
                                                    ELSE "findMessages")
    /\ UNCHANGED <<clockVars, rateLimitStore, callVars, apiKey, client, stream, task, dbVars>>

\* regenerate: await Message.findByIdAndDelete(lastAssistantMessage._id)
DeleteLastAssistant(r) ==
    /\ pc[r] = "deleteLastAssistant"
    /\ messages' = RemoveId(messages, req[r].lastAssistantMessage[1].id)
    /\ hist' = [hist EXCEPT ![r].deleted = Some(req[r].lastAssistantMessage[1].id),
                             ![r].removed = hist[r].removed + (Len(messages) - Len(messages'))]
    /\ pc' = [pc EXCEPT ![r] = "decrementConversation"]
    /\ UNCHANGED <<clockVars, admVars, callVars, apiKey, client, req, response, stream, task,
                   userDocs, conversations, usageLog>>

\* regenerate: await Conversation.findByIdAndUpdate($inc messageCount -1, totalTokens -n)
DecrementConversation(r) ==
    /\ pc[r] = "decrementConversation"
    /\ LET id == req[r].conversationId[1]
           n == req[r].lastAssistantMessage[1].tokenCount
       IN conversations' =
            IF conversations[id] = None THEN conversations
            ELSE [conversations EXCEPT ![id] =
                    Some([conversations[id][1] EXCEPT
                            !.messageCount = conversations[id][1].messageCount - 1,
                            !.totalTokens = conversations[id][1].totalTokens - n])]
    /\ req' = [req EXCEPT ![r].lastAssistantMessage = None]
    /\ pc' = [pc EXCEPT ![r] = "findMessages"]
    /\ hist' = [hist EXCEPT ![r].decrements =
                    hist[r].decrements
                    + (IF conversations[req[r].conversationId[1]] = None THEN 0 ELSE 1)]
    /\ UNCHANGED <<clockVars, admVars, callVars, apiKey, client, response, stream, task,
                   userDocs, messages, usageLog>>

\* Message.find({conversationId, role: {$ne: 'system'}}).sort({createdAt: -1})
\* .limit(15), reversed and mapped to {role, content}; id: the document an entry
\* was read from, kept for the properties
recentMessages(conversationId) ==
    LET found == SelectSeq(messages, LAMBDA m : m.conversationId = conversationId
                                                  /\ m.role # "system")
        last == slice(found, 0 - 15)
    IN [i \in 1 .. Len(last) |->
            [id |-> last[i].id, role |-> last[i].role, content |-> last[i].content]]

\* the context of a request: the recent messages (send: and the new message of
\* the user) under the prompt version of the conversation
contextOf(r) ==
    LET messagesForContext ==
            recentMessages(req[r].conversationId[1])
            \o (IF req[r].kind = "send"
                THEN <<[id |-> MessageId(r, "user"), role |-> "user",
                        content |-> req[r].content]>>
                ELSE <<>>)
    IN buildContext(messagesForContext,
                    [NoOptions EXCEPT !.systemPromptVersion = req[r].systemPromptVersion]).messages

\* a variant of FindMessages without the test for an empty history
FindMessagesNoEmptyCheck(r) ==
    /\ pc[r] = "findMessages"
    /\ IF req[r].kind = "send"
       THEN /\ Goto(r, "createUserMessage")
            /\ req' = [req EXCEPT ![r].context = contextOf(r)]
            /\ UNCHANGED stream
       ELSE StartStreaming(r, contextOf(r))
    /\ UNCHANGED <<clockVars, rateLimitStore, callVars, apiKey, client, task, dbVars>>

\* await Message.find(...).limit(15); regenerate: nothing to regenerate from, or
\* the context, startRequest and the relay; send: the context, Message.create of
\* the user's message called
FindMessages(r) ==
    /\ pc[r] = "findMessages"
    /\ IF req[r].kind = "send"
       THEN /\ Goto(r, "createUserMessage")
            /\ req' = [req EXCEPT ![r].context = contextOf(r)]
            /\ UNCHANGED stream
       ELSE IF CountOf(messages, req[r].conversationId[1]) = 0
       THEN /\ Return(r, req[r].kind, req[r].userId,
                      JsonResponse(400, "No messages to regenerate from", None))
            /\ UNCHANGED stream
       ELSE StartStreaming(r, contextOf(r))
    /\ UNCHANGED <<clockVars, rateLimitStore, callVars, apiKey, client, task, dbVars>>

\* send: await Message.create({role: 'user'}); startRequest and the relay
CreateUserMessage(r) ==
    /\ pc[r] = "createUserMessage"
    /\ messages' = Append(messages, [id |-> MessageId(r, "user"),
                                     conversationId |-> req[r].conversationId[1],
                                     role |-> "user", content |-> req[r].content,
                                     tokenCount |-> 0])
    /\ StartStreaming(r, req[r].context)
    /\ UNCHANGED <<clockVars, rateLimitStore, callVars, apiKey, client, task,
                   userDocs, conversations, usageLog>>

\* await createStreamingCompletion(...): the SSE response, or the configuration
\* error caught by the handler; the finally block
ReturnStream(r) ==
    /\ pc[r] = "awaitStream"
    /\ IF stream[r].at = "none"
       THEN Return(r, req[r].kind, req[r].userId, Failed(req[r].kind))
       ELSE ReturnResponse(r, req[r].userId, StreamResponse)
    /\ UNCHANGED <<clockVars, rateLimitStore, callVars, apiKey, client, stream, task, dbVars>>

\* an awaited database operation of the handler rejects: the catch block and the
\* finally block
AwaitedInHandler == {"findUser", "saveUser", "findConversation", "findLastAssistant",
                     "deleteLastAssistant", "decrementConversation", "findMessages",
                     "createUserMessage"}

Throw(r) ==
    /\ pc[r] \in AwaitedInHandler
    /\ Return(r, req[r].kind, req[r].userId, Failed(req[r].kind))
    /\ UNCHANGED <<clockVars, rateLimitStore, callVars, apiKey, client, stream, task, dbVars>>

(***************************************************************************)
(* Route handler DELETE /api/chat/conversations/[id] ("delete").  It has   *)
(* no finally block and never touches the concurrency counter.             *)
(***************************************************************************)
\* `return NextResponse.json(...)` of the DELETE handler
ReturnJson(r, resp) ==
    /\ pc' = [pc EXCEPT ![r] = "returned"]
    /\ response' = [response EXCEPT ![r] = resp]
    /\ req' = [req EXCEPT ![r] = Gone("delete")]

\* The handler up to `await Conversation.findOneAndDelete`: params,
\* getCurrentUser, dbConnect
ReceiveDelete(r, limit) ==
    /\ pc[r] = "idle"
    /\ r <= limit
    /\ \A q \in Requests : q < r => pc[q] # "idle"
    /\ \E user \in {None} \cup {Some(i) : i \in Identities},
          id \in ConversationIds \cup {UnknownConversationId} :
          IF user = None
          THEN ReturnJson(r, JsonResponse(401, "Unauthorized", None))
          ELSE /\ req' = [req EXCEPT ![r] =
                             [NoReq EXCEPT !.kind = "delete",
                                           !.userId = Some(user[1].userId),
                                           !.role = Some(user[1].role),
                                           !.conversationId = Some(id)]]
               /\ pc' = [pc EXCEPT ![r] = "findOneAndDelete"]
               /\ UNCHANGED response
    /\ UNCHANGED <<clockVars, admVars, callVars, apiKey, client, stream, task, hist, dbVars>>

\* await Conversation.findOneAndDelete({_id: id, userId})
DeleteConversation(r) ==
    /\ pc[r] = "findOneAndDelete"
    /\ LET id == req[r].conversationId[1]
           found == /\ id \in ConversationIds
                    /\ conversations[id] # None
                    /\ conversations[id][1].userId = req[r].userId[1]
       IN IF ~found
          THEN /\ ReturnJson(r, JsonResponse(404, "Conversation not found", None))
               /\ UNCHANGED conversations
          ELSE /\ conversations' = [conversations EXCEPT ![id] = None]
               /\ pc' = [pc EXCEPT ![r] = "deleteMany"]
               /\ UNCHANGED <<req, response>>
    /\ UNCHANGED <<clockVars, admVars, callVars, apiKey, client, stream, task, hist,
                   userDocs, messages, usageLog>>

\* await Message.deleteMany({conversationId: id}); the success response
DeleteMessages(r) ==
    /\ pc[r] = "deleteMany"
    /\ messages' = SelectSeq(messages, LAMBDA m : m.conversationId # req[r].conversationId[1])
    /\ ReturnJson(r, [NoResponse EXCEPT !.status = 200])
    /\ UNCHANGED <<clockVars, admVars, callVars, apiKey, client, stream, task, hist,
                   userDocs, conversations, usageLog>>

\* an awaited database operation of the DELETE handler rejects: its catch block
DeleteThrow(r) ==
    /\ pc[r] \in {"findOneAndDelete", "deleteMany"}
    /\ ReturnJson(r, JsonResponse(500, "Failed to delete conversation", None))
    /\ UNCHANGED <<clockVars, admVars, callVars, apiKey, client, stream, task, hist, dbVars>>

(***************************************************************************)
(* The relay: start() of the ReadableStream of createStreamingCompletion.  *)
(* The handler's continuation after `await createStreamingCompletion` is a *)
(* microtask and runs before any network event of the stream.              *)
(***************************************************************************)
Relaying(r) == pc[r] = "returned" /\ stream[r].status = "open"

\* the stream ends without onComplete: the callbacks' closure is dropped
Forget(r) == req' = [req EXCEPT ![r] = Gone(req[r].kind)]

\* a variant of FetchResolves that reads the body whatever the status
FetchResolvesIgnoresStatus(r) ==
    /\ Relaying(r)
    /\ stream[r].at = "fetch"
    /\ \E o \in FetchOutcomes :
          stream' = [stream EXCEPT ![r] = [stream[r] EXCEPT !.timeoutArmed = FALSE,
                                                            !.fetched = Some(o),
                                                            !.at = "read"]]
    /\ UNCHANGED <<clockVars, admVars, callVars, apiKey, client, reqVars, task, hist, dbVars>>

\* `await fetch` resolves: clearTimeout; a non-success status (await response.text(),
\* the message of the error body or the status-coded one) throws; so does a
\* response without a body
FetchResolves(r) ==
    /\ Relaying(r)
    /\ stream[r].at = "fetch"
    /\ \E o \in FetchOutcomes :
          LET st == [stream[r] EXCEPT !.timeoutArmed = FALSE, !.fetched = Some(o)] IN
          IF ~o.ok
          THEN /\ stream' = [stream EXCEPT ![r] =
                                FailStream(st, IF o.errorBody # None THEN o.errorBody[1]
                                               ELSE <<"OpenAI API error: ", o.status>>)]
               /\ Forget(r)
          ELSE IF ~o.hasBody
          THEN /\ stream' = [stream EXCEPT ![r] =
                                FailStream(st, <<"Failed to get response stream">>)]
               /\ Forget(r)
          ELSE /\ stream' = [stream EXCEPT ![r] = [st EXCEPT !.at = "read"]]
               /\ UNCHANGED req
    /\ UNCHANGED <<clockVars, admVars, callVars, apiKey, client, pc, response, task, hist, dbVars>>

\* `await reader.read()` resolves with a chunk
ReadChunk(r, chunks, maxReads) ==
    /\ Relaying(r)
    /\ stream[r].at = "read"
    /\ stream[r].reads < maxReads
    /\ \E value \in chunks :
          stream' = [stream EXCEPT ![r] = ProcessChunk(stream[r], value)]
    /\ UNCHANGED <<clockVars, admVars, callVars, apiKey, client, reqVars, task, hist, dbVars>>

\* `await reader.read()` resolves with the next bytes of an upstream body, cut
\* at any place: the network decides how the bytes are split into reads
ReadSplit(r, bodies) ==
    /\ Relaying(r)
    /\ stream[r].at = "read"
    /\ \E body \in bodies :
          LET n == Len(stream[r].received) IN
          /\ n < Len(body)
          /\ SubSeq(body, 1, n) = stream[r].received
          /\ \E k \in 1 .. (Len(body) - n) :
                stream' = [stream EXCEPT ![r] =
                              ProcessChunk(stream[r], SubSeq(body, n + 1, n + k))]
    /\ UNCHANGED <<clockVars, admVars, callVars, apiKey, client, reqVars, task, hist, dbVars>>

\* onComplete of the route (messages 173-178, regenerate 167-172): runs up to its
\* first await, Message.create
onComplete(st) == [at |-> "createMessage", content |-> st.fullContent, usage |-> UsageOf(st)]

\* `await reader.read()` resolves with done: done frame, onComplete, close
ReadDone(r) ==
    /\ Relaying(r)
    /\ stream[r].at = "read"
    /\ stream' = [stream EXCEPT ![r] = CompleteStream(stream[r])]
    /\ task' = [task EXCEPT ![r] = onComplete(stream[r])]
    /\ UNCHANGED <<clockVars, admVars, callVars, apiKey, client, reqVars, hist, dbVars>>

\* a variant of Reject that hands the partial answer to onComplete
RejectPersistsPartial(r) ==
    /\ Relaying(r)
    /\ stream[r].at \in {"fetch", "read"}
    /\ stream' = [stream EXCEPT ![r] = FailStream(stream[r], <<"fetch failed">>)]
    /\ task' = [task EXCEPT ![r] = onComplete(stream[r])]
    /\ UNCHANGED <<clockVars, admVars, callVars, apiKey, client, reqVars, hist, dbVars>>

\* the awaited fetch or read rejects (network failure): the catch block of start()
Reject(r) ==
    /\ Relaying(r)
    /\ stream[r].at \in {"fetch", "read"}
    /\ stream' = [stream EXCEPT ![r] = FailStream(stream[r], <<"fetch failed">>)]
    /\ Forget(r)
    /\ UNCHANGED <<clockVars, admVars, callVars, apiKey, client, pc, response, task, hist, dbVars>>

\* setTimeout(() => controller.abort(), REQUEST_TIMEOUT) fires while the timer is
\* armed: the fetch rejects with the abort error, caught by start()
Timeout(r) ==
    /\ Relaying(r)
    /\ stream[r].timeoutArmed
    /\ stream' = [stream EXCEPT ![r] =
                     FailStream([stream[r] EXCEPT !.aborted = TRUE],
                                <<"This operation was aborted">>)]
    /\ Forget(r)
    /\ UNCHANGED <<clockVars, admVars, callVars, apiKey, client, pc, response, task, hist, dbVars>>

\* the consumer cancels the ReadableStream (the client went away): cancel() clears
\* the timeout and aborts the upstream call
Cancel(r) ==
    /\ Relaying(r)
    /\ stream' = [stream EXCEPT ![r].timeoutArmed = FALSE, ![r].aborted = TRUE,
                                ![r].status = "cancelled"]
    /\ Forget(r)
    /\ UNCHANGED <<clockVars, admVars, callVars, apiKey, client, pc, response, task, hist, dbVars>>

\* a variant of AbortedWake in which the relay completes the cancelled stream
AbortedWakeCompletes(r) ==
    /\ pc[r] = "returned"
    /\ stream[r].status = "cancelled"
    /\ stream[r].at \in {"fetch", "read"}
    /\ stream' = [stream EXCEPT ![r] = CompleteStream(stream[r])]
    /\ task' = [task EXCEPT ![r] = onComplete(stream[r])]
    /\ UNCHANGED <<clockVars, admVars, callVars, apiKey, client, reqVars, hist, dbVars>>

\* after cancel(), the aborted await rejects; in the catch block enqueue throws on
\* the cancelled stream, so neither callback runs and start() is over
AbortedWake(r) ==
    /\ pc[r] = "returned"
    /\ stream[r].status = "cancelled"
    /\ stream[r].at \in {"fetch", "read"}
    /\ stream' = [stream EXCEPT ![r] = EndOfStart(stream[r])]
    /\ UNCHANGED <<clockVars, admVars, callVars, apiKey, client, reqVars, task, hist, dbVars>>

(***************************************************************************)
(* The relay called directly with a cancellation signal in its options     *)
(***************************************************************************)
\* createStreamingCompletion(messages, {signal, ...}): `signal` is destructured
\* and tested, and both branches of the test pass the relay's own controller to
\* the fetch (openai.ts 96-98)
CallRelay(r) ==
    /\ pc[r] = "idle"
    /\ r = 1
    /\ pc' = [pc EXCEPT ![r] = "returned"]
    /\ stream' = [stream EXCEPT ![r] =
                     IF apiKey
                     THEN [createStreamingCompletion(
                               <<[role |-> "user", content |-> <<Run("hi", 2)>>]>>)
                             EXCEPT !.signal = "given"]
                     ELSE NoStream]
    /\ UNCHANGED <<clockVars, admVars, callVars, apiKey, client, req, response, task, hist, dbVars>>

\* the caller aborts the signal it passed: nothing in the relay listens to it
AbortSignal(r) ==
    /\ stream[r].signal = "given"
    /\ stream[r].status = "open"
    /\ stream' = [stream EXCEPT ![r].signal = "aborted",
                                ![r].abortedAtRead = stream[r].reads]
    /\ UNCHANGED <<clockVars, admVars, callVars, apiKey, client, reqVars, task, hist, dbVars>>

(***************************************************************************)
(* onComplete: the persistence of a completed answer                       *)
(***************************************************************************)
\* onComplete goes on to its next await, or is over
TaskGoto(r, label) ==
    IF label \in {"done", "failed"}
    THEN /\ task' = [task EXCEPT ![r] = [NoTask EXCEPT !.at = label]]
         /\ Forget(r)
    ELSE /\ task' = [task EXCEPT ![r].at = label]
         /\ UNCHANGED req

\* await Message.create({role: 'assistant', tokenCount: outputTokens})
TaskCreateMessage(r) ==
    /\ task[r].at = "createMessage"
    /\ messages' = Append(messages, [id |-> MessageId(r, "assistant"),
                                     conversationId |-> req[r].conversationId[1],
                                     role |-> "assistant",
                                     content |-> TextOf(task[r].content),
                                     tokenCount |-> task[r].usage.outputTokens])
    /\ TaskGoto(r, "updateConversation")
    /\ UNCHANGED <<clockVars, admVars, callVars, apiKey, client, pc, response, stream, hist,
                   userDocs, conversations, usageLog>>

\* await Conversation.findByIdAndUpdate($inc messageCount, totalTokens)
TaskUpdateConversation(r) ==
    /\ task[r].at = "updateConversation"
    /\ LET id == req[r].conversationId[1]
           n == IF req[r].kind = "send" THEN 2 ELSE 1
       IN conversations' =
            IF conversations[id] = None THEN conversations
            ELSE [conversations EXCEPT ![id] =
                    Some([conversations[id][1] EXCEPT
                            !.messageCount = conversations[id][1].messageCount + n,
                            !.totalTokens = conversations[id][1].totalTokens
                                               + task[r].usage.totalTokens])]
    /\ TaskGoto(r, "updateUser")
    /\ UNCHANGED <<clockVars, admVars, callVars, apiKey, client, pc, response, stream, hist,
                   userDocs, messages, usageLog>>

\* a variant of TaskUpdateUser that adds the usage of the request twice
TaskUpdateUserTwice(r) ==
    /\ task[r].at = "updateUser"
    /\ LET userId == req[r].userId[1]
           u == userDocs[userId]
       IN userDocs' =
            IF u = None THEN userDocs
            ELSE [userDocs EXCEPT ![userId] =
                    Some([u[1] EXCEPT
                            !.totalTokensUsed = u[1].totalTokensUsed + 2 * task[r].usage.totalTokens,
                            !.dailyTokensUsed = u[1].dailyTokensUsed + 2 * task[r].usage.totalTokens,
                            !.dailyMessages = u[1].dailyMessages
                                                 + (IF req[r].kind = "send" THEN 1 ELSE 0)])]
    /\ TaskGoto(r, "createLog")
    /\ UNCHANGED <<clockVars, admVars, callVars, apiKey, client, pc, response, stream, hist,
                   conversations, messages, usageLog>>

\* await User.findByIdAndUpdate($inc aiUsage.*)
TaskUpdateUser(r) ==
    /\ task[r].at = "updateUser"
    /\ LET userId == req[r].userId[1]
           u == userDocs[userId]
       IN userDocs' =
            IF u = None THEN userDocs
            ELSE [userDocs EXCEPT ![userId] =
                    Some([u[1] EXCEPT
                            !.totalTokensUsed = u[1].totalTokensUsed + task[r].usage.totalTokens,
                            !.dailyTokensUsed = u[1].dailyTokensUsed + task[r].usage.totalTokens,
                            !.dailyMessages = u[1].dailyMessages
                                                 + (IF req[r].kind = "send" THEN 1 ELSE 0)])]
    /\ TaskGoto(r, "createLog")
    /\ UNCHANGED <<clockVars, admVars, callVars, apiKey, client, pc, response, stream, hist,
                   conversations, messages, usageLog>>

\* await AIUsageLog.create(...); send: the title check
TaskCreateLog(r) ==
    /\ task[r].at = "createLog"
    /\ usageLog' = Append(usageLog, [userId |-> req[r].userId[1],
                                     conversationId |-> req[r].conversationId[1],
                                     inputTokens |-> task[r].usage.inputTokens,
                                     outputTokens |-> task[r].usage.outputTokens,
                                     totalTokens |-> task[r].usage.totalTokens])
    /\ TaskGoto(r, IF /\ req[r].kind = "send"
                      /\ req[r].title = Some("New Chat")
                      /\ task[r].content # <<>>
                   THEN "updateTitle" ELSE "done")
    /\ UNCHANGED <<clockVars, admVars, callVars, apiKey, client, pc, response, stream, hist,
                   userDocs, conversations, messages>>

\* send: await Conversation.findByIdAndUpdate({title})
TaskUpdateTitle(r) ==
    /\ task[r].at = "updateTitle"
    /\ LET id == req[r].conversationId[1] IN
       conversations' =
            IF conversations[id] = None THEN conversations
            ELSE [conversations EXCEPT ![id] =
                    Some([conversations[id][1] EXCEPT !.title = "titled"])]
    /\ TaskGoto(r, "done")
    /\ UNCHANGED <<clockVars, admVars, callVars, apiKey, client, pc, response, stream, hist,
                   userDocs, messages, usageLog>>

\* a variant of TaskThrow that sends the failure to the client as an Error frame
TaskThrowSurfaces(r) ==
    /\ task[r].at \in {"createMessage", "updateConversation", "updateUser",
                       "createLog", "updateTitle"}
    /\ TaskGoto(r, "failed")
    /\ stream' = [stream EXCEPT ![r].wire =
                     Append(stream[r].wire, ErrorEvent(<<"Failed to save">>))]
    /\ UNCHANGED <<clockVars, admVars, callVars, apiKey, client, pc, response, hist, dbVars>>

\* a persistence write of onComplete rejects: caught and logged
TaskThrow(r) ==
    /\ task[r].at \in {"createMessage", "updateConversation", "updateUser",
                       "createLog", "updateTitle"}
    /\ TaskGoto(r, "failed")
    /\ UNCHANGED <<clockVars, admVars, callVars, apiKey, client, pc, response, stream, hist, dbVars>>

(***************************************************************************)
(* Direct calls of the admission controller: checkAIRateLimit,             *)
(* startRequest and endRequest called in any order, for any role           *)
(***************************************************************************)
\* the largest maxConcurrentRequests of the tier table
MaxCap == AI_RATE_LIMITS["admin"].maxConcurrentRequests

\* the daily token counts a caller passes: none used, one short of the tier's
\* limit, the limit
DailyTokens(userRole) ==
    {0, getAIRateLimits(userRole).dailyTokenLimit - 1, getAIRateLimits(userRole).dailyTokenLimit}

CallOf(op, userId) ==
    [NoCall EXCEPT !.op = op, !.userId = Some(userId), !.at = now,
                   !.concurrentBefore = concurrentRequests[userId],
                   !.entryBefore = rateLimitStore[getRateLimitKey(userId, "ai-chat")]]

CallCheck ==
    /\ \E userId \in Users, userRole \in Roles :
         \E currentDailyTokens \in DailyTokens(userRole) :
            LET result == checkAIRateLimit(userId, userRole, currentDailyTokens) IN
            /\ rateLimitStore[getRateLimitKey(userId, "ai-chat")].count < MaxChecks
            /\ rateLimitStore' = result.store
            /\ lastCall' = [CallOf("checkAIRateLimit", userId) EXCEPT
                               !.role = Some(userRole),
                               !.tokens = currentDailyTokens,
                               !.result = Some([allowed |-> result.allowed,
                                                reason |-> result.reason,
                                                remaining |-> result.remaining,
                                                retryAfter |-> result.retryAfter])]
    /\ UNCHANGED <<clockVars, concurrentRequests, apiKey, client, reqVars, stream, task, hist, dbVars>>

CallStart ==
    /\ \E userId \in Users :
          /\ concurrentRequests[userId] < MaxCap + MaxExtraCalls
          /\ concurrentRequests' = startRequest(userId)
          /\ lastCall' = CallOf("startRequest", userId)
    /\ UNCHANGED <<clockVars, rateLimitStore, apiKey, client, reqVars, stream, task, hist, dbVars>>

CallEnd ==
    /\ \E userId \in Users :
          /\ concurrentRequests' = endRequest(userId)
          /\ lastCall' = CallOf("endRequest", userId)
    /\ UNCHANGED <<clockVars, rateLimitStore, apiKey, client, reqVars, stream, task, hist, dbVars>>

\* time passes
Tick ==
    /\ ticks < MaxTicks
    /\ ticks' = ticks + 1
    /\ now' = now + TickMs
    /\ UNCHANGED <<admVars, callVars, apiKey, client, reqVars, stream, task, hist, dbVars>>

\* the next UTC date begins
NextDay ==
    /\ ticks < MaxTicks
    /\ ticks' = ticks + 1
    /\ now' = (UTCDay(now) + 1) * DAY_MS
    /\ UNCHANGED <<admVars, callVars, apiKey, client, reqVars, stream, task, hist, dbVars>>

(***************************************************************************)
(* Direct calls of the context manager: buildContext, truncateMessage and  *)
(* validateUserInput applied to inputs of every shape.  The functions keep  *)
(* no state, so a behaviour is one call.                                   *)
(***************************************************************************)
ShortText == <<Run("hi", 2)>>
LongText == <<Run("x", MAX_MESSAGE_CHARS + 1)>>

ContextMessages == [role : {"user", "assistant", "system"}, content : {ShortText, LongText}]

\* one more message than the default maxMessages
ManyMessages == [i \in 1 .. (MAX_CONTEXT_MESSAGES + 1) |-> [role |-> "user", content |-> ShortText]]

InputSequences ==
    UNION {[1 .. n -> ContextMessages] : n \in 0 .. MaxInput} \cup {ManyMessages}

ContextOptions ==
    [maxMessages : {None, Some(0 - 1), Some(0), Some(1), Some(2)},
     maxChars : {None, Some(1), Some(3), Some(560)},
     systemPromptVersion : {None, Some("1.0.0"), Some("2.0.0")},
     includeSystemPrompt : {None, Some(TRUE), Some(FALSE)}]

CallBuildContext ==
    /\ lastCall = NoCall
    /\ \E msgs \in InputSequences, options \in ContextOptions :
          lastCall' = [op |-> "buildContext", messages |-> msgs, options |-> options,
                       result |-> buildContext(msgs, options)]
    /\ UNCHANGED <<clockVars, admVars, apiKey, client, reqVars, stream, task, hist, dbVars>>

TruncateInputs ==
    { <<>>, ShortText, <<Run("x", 21)>>, <<Run("x", 150), Run("y", 100)>>,
      <<Run("x", MAX_MESSAGE_CHARS)>>, LongText,
      <<Run("x", MAX_MESSAGE_CHARS - 100), Run("y", 200)>> }

TruncateLimits == {None, Some(20), Some(100), Some(138), Some(200)}

CallTruncateMessage ==
    /\ lastCall = NoCall
    /\ \E content \in TruncateInputs, maxChars \in TruncateLimits :
          lastCall' = [op |-> "truncateMessage", content |-> content, maxChars |-> maxChars,
                       result |-> truncateMessage(content, Default(maxChars, MAX_MESSAGE_CHARS))]
    /\ UNCHANGED <<clockVars, admVars, apiKey, client, reqVars, stream, task, hist, dbVars>>

ValidateInputs ==
    { None, Some(<<>>), Some(<<Run(" ", 1)>>), Some(<<Run("\n", 2), Run(" ", 3)>>),
      Some(ShortText), Some(<<Run(" ", 1), Run("hi", 2), Run(" ", 1)>>),
      Some(<<Run("x", MAX_MESSAGE_CHARS)>>), Some(LongText),
      Some(<<Run("x", MAX_MESSAGE_CHARS), Run(" ", 1)>>),
      Some(<<Run("jailbreak", 9)>>), Some(<<Run("JAILBREAK", 9)>>),
      Some(<<Run("jailbreak", 4)>>),
      Some(<<Run("ignore", 6), Run(" ", 1), Run("all", 3), Run(" ", 1), Run("rules", 5)>>),
      Some(<<Run("ignore", 6), Run(" ", 1), Run("previous", 8), Run("x", 3),
             Run("instructions", 12)>>),
      Some(<<Run("System", 6), Run(" ", 1), Run("prompt", 6)>>),
      Some(<<Run("system", 6), Run("\n", 1), Run("prompt", 6)>>),
      Some(<<Run("x", MAX_MESSAGE_CHARS - 9), Run("jailbreak", 9)>>),
      Some(<<Run("x", MAX_MESSAGE_CHARS - 9), Run("jailbreak", 9), Run("\n", 1)>>),
      Some(<<Run("x", MAX_MESSAGE_CHARS), Run("jailbreak", 9)>>) }

CallValidateUserInput ==
    /\ lastCall = NoCall
    /\ \E content \in ValidateInputs :
          lastCall' = [op |-> "validateUserInput", content |-> content,
                       result |-> validateUserInput(content)]
    /\ UNCHANGED <<clockVars, admVars, apiKey, client, reqVars, stream, task, hist, dbVars>>

(***************************************************************************)
(* useChat: sendMessage of the client hook (lib/hooks/useChat.ts).  The    *)
(* hook is called once; what the server answers is an input.               *)
(***************************************************************************)
\* at: the await sendMessage is suspended at ("idle": not called, "over": it has
\* returned); messages, isStreaming, error: the state of the hook; onErrorCalls:
\* calls of options.onError; received: the frames the body has delivered so far
\* (kept for the properties)
NoClient == [at |-> "idle", messages |-> <<>>, isStreaming |-> FALSE, error |-> None,
             onErrorCalls |-> 0, fullContent |-> <<>>, reads |-> 0, received |-> <<>>]

\* the object of a frame of the relay (openai.ts 172, 197-201, 214-217) as
\* JSON.parse gives it back to the hook: a field the frame does not have reads
\* as a falsy value
SseJson(event) ==
    [token |-> IF event.type = "token" THEN event.text ELSE <<>>,
     done |-> event.type = "done",
     content |-> IF event.type = "done" THEN event.text ELSE <<>>,
     error |-> event.type = "error",
     message |-> IF event.type = "error" THEN event.text ELSE <<>>]

\* chunk.split('\n') of a chunk that carries the frames `data: <json>\n\n` of
\* events: a line is [data: whether it starts with 'data: ', json: what follows]
RECURSIVE SseChunk(_)
SseChunk(events) ==
    IF events = <<>> THEN << [data |-> FALSE, json |-> None] >>
    ELSE << [data |-> TRUE, json |-> Some(SseJson(Head(events)))],
            [data |-> FALSE, json |-> None] >> \o SseChunk(Tail(events))

\* handleError(err): setError(error.message); onError?.(error)
handleError(c, message) ==
    [c EXCEPT !.error = Some(message), !.onErrorCalls = c.onErrorCalls + 1]

\* the body of `for (const line of lines)` of sendMessage (useChat.ts 304-338).
\* `throw new Error(data.message || 'Streaming error')` is inside the `try` whose
\* `catch (parseError)` has an empty body ("Skip malformed JSON"): the error of
\* an Error frame is thrown and caught on the spot, and the loop goes on
ProcessSseLine(c, line) ==
    IF ~line.data \/ line.json = None THEN c
    ELSE LET data == line.json[1]
             placeholder == "temp-assistant"
             c1 == IF data.token # <<>>
                   THEN LET fullContent == c.fullContent \o data.token IN
                        [c EXCEPT !.fullContent = fullContent,
                                  !.messages = [i \in DOMAIN c.messages |->
                                      IF c.messages[i].id = placeholder
                                      THEN [c.messages[i] EXCEPT !.content = fullContent]
                                      ELSE c.messages[i]]]
                   ELSE c
             c2 == IF data.done
                   THEN [c1 EXCEPT !.messages = [i \in DOMAIN c1.messages |->
                            IF c1.messages[i].id = placeholder
                            THEN [c1.messages[i] EXCEPT
                                     !.content = IF data.content # <<>> THEN data.content
                                                 ELSE c1.fullContent,
                                     !.isStreaming = FALSE]
                            ELSE c1.messages[i]]]
                   ELSE c1
             thrown == IF data.error
                       THEN Some(IF data.message # <<>> THEN data.message
                                 ELSE <<"Streaming error">>)
                       ELSE None
             caught == thrown
         IN IF caught # None THEN c2 ELSE c2

RECURSIVE ProcessSseLines(_, _)
ProcessSseLines(c, lines) ==
    IF lines = <<>> THEN c
    ELSE ProcessSseLines(ProcessSseLine(c, Head(lines)), Tail(lines))

\* the catch block of sendMessage (useChat.ts 343-357) and its finally block:
\* an abort keeps the placeholder, any other error is surfaced through
\* handleError and the placeholder removed; setIsStreaming(false)
SendCatch(c, err) ==
    LET placeholder == "temp-assistant"
        caught ==
            IF err.name = "AbortError"
            THEN [c EXCEPT !.messages = [i \in DOMAIN c.messages |->
                     IF c.messages[i].id = placeholder
                     THEN [c.messages[i] EXCEPT
                              !.isStreaming = FALSE,
                              !.content = IF c.messages[i].content # <<>>
                                          THEN c.messages[i].content
                                          ELSE <<"[Cancelled]">>]
                     ELSE c.messages[i]]]
            ELSE [handleError(c, err.message) EXCEPT
                     !.messages = SelectSeq(c.messages, LAMBDA m : m.id # placeholder)]
    IN [caught EXCEPT !.isStreaming = FALSE, !.at = "over"]

\* sendMessage(content) up to `await fetch`: nothing without a conversation or
\* with blank content; else the user's message and the placeholder of the
\* answer are appended
SendMessage ==
    /\ client.at = "idle"
    /\ \E currentConversation \in {None} \cup {Some(c) : c \in ConversationIds},
          content \in Contents \ {None} :
          client' =
            IF currentConversation = None \/ TrimText(content[1]) = <<>>
            THEN [client EXCEPT !.at = "over"]
            ELSE [client EXCEPT
                    !.error = None,
                    !.messages = client.messages \o
                        << [id |-> "temp", role |-> "user",
                            content |-> TrimText(content[1]), isStreaming |-> FALSE],
                           [id |-> "temp-assistant", role |-> "assistant",
                            content |-> <<>>, isStreaming |-> TRUE] >>,
                    !.isStreaming = TRUE,
                    !.at = "fetch"]
    /\ UNCHANGED <<clockVars, admVars, callVars, apiKey, reqVars, stream, task, hist, dbVars>>

\* `await fetch('/api/chat/messages')` resolves or rejects: a response that is
\* not ok throws its error, a response without body throws, a rejected or
\* aborted fetch throws
SendFetchResolves ==
    /\ client.at = "fetch"
    /\ \E outcome \in {"ok", "notOk", "noBody", "rejected", "aborted"} :
          client' =
            IF outcome = "ok" THEN [client EXCEPT !.at = "read"]
            ELSE IF outcome = "notOk"
            THEN SendCatch(client, [name |-> "Error", message |-> <<REASON_CONCURRENT>>])
            ELSE IF outcome = "noBody"
            THEN SendCatch(client, [name |-> "Error", message |-> <<"No response stream">>])
            ELSE IF outcome = "rejected"
            THEN SendCatch(client, [name |-> "TypeError", message |-> <<"Failed to fetch">>])
            ELSE SendCatch(client, [name |-> "AbortError",
                                    message |-> <<"The operation was aborted">>])
    /\ UNCHANGED <<clockVars, admVars, callVars, apiKey, reqVars, stream, task, hist, dbVars>>

\* the texts of the Token events of a stream, in order
RECURSIVE TokenTexts(_)
TokenTexts(wire) ==
    IF wire = <<>> THEN <<>>
    ELSE (IF Head(wire).type = "token" THEN <<Head(wire).text>> ELSE <<>>)
             \o TokenTexts(Tail(wire))

RECURSIVE Concat(_)
Concat(texts) == IF texts = <<>> THEN <<>> ELSE Head(texts) \o Concat(Tail(texts))

\* the chunks a read of the body can deliver after the frames `received`: the
\* relay sends Token frames and then one Done frame (with the concatenated
\* tokens) or one Error frame; a chunk carries one or more whole frames
ClientChunks(received) ==
    LET tokens == {<<>>, <<TokenEvent(<<"a">>)>>, <<TokenEvent(<<"b">>)>>,
                   <<TokenEvent(<<"a">>), TokenEvent(<<"b">>)>>}
        ends(t) == {<<>>,
                    <<DoneEvent(Concat(TokenTexts(received \o t)), NoUsage)>>,
                    <<ErrorEvent(<<"fetch failed">>)>>,
                    <<ErrorEvent(<<>>)>>}
    IN {t \o e : t \in tokens, e \in UNION {ends(u) : u \in tokens}} \ {<<>>}

\* `await reader.read()` resolves with a chunk, resolves with done after the
\* terminal frame (loadConversations is called and not awaited; the finally
\* block), or rejects
SendReadResolves ==
    /\ client.at = "read"
    /\ LET ended == \E i \in 1 .. Len(client.received) :
                        client.received[i].type \in {"done", "error"}
       IN \/ /\ ~ended
             /\ client.reads < MaxClientReads
             /\ \E events \in ClientChunks(client.received) :
                   /\ \A i \in 1 .. Len(events) :
                         events[i].type = "done" =>
                             events[i].text = Concat(TokenTexts(client.received \o events))
                   /\ client' = ProcessSseLines(
                                   [client EXCEPT !.reads = client.reads + 1,
                                                  !.received = client.received \o events],
                                   SseChunk(events))
          \/ /\ ended
             /\ client' = [client EXCEPT !.isStreaming = FALSE, !.at = "over"]
          \/ /\ ~ended
             /\ \E err \in {[name |-> "TypeError", message |-> <<"network error">>],
                            [name |-> "AbortError", message |-> <<"The operation was aborted">>]} :
                   client' = SendCatch(client, err)
    /\ UNCHANGED <<clockVars, admVars, callVars, apiKey, reqVars, stream, task, hist, dbVars>>

(***************************************************************************)
(* The route specification                                                 *)
(***************************************************************************)
Init ==
    /\ now = 0
    /\ ticks = 0
    /\ rateLimitStore = [k \in RateKeys |-> NoEntry]
    /\ concurrentRequests = [u \in Users |-> 0]
    /\ lastCall = NoCall
    /\ apiKey \in BOOLEAN
    /\ pc = [r \in Requests |-> "idle"]
    /\ req = [r \in Requests |-> NoReq]
    /\ response = [r \in Requests |-> NoResponse]
    /\ stream = [r \in Requests |-> NoStream]
    /\ task = [r \in Requests |-> NoTask]
    /\ hist = [r \in Requests |-> NoHist]
    /\ userDocs = [u \in Users |-> Some(NewAiUsage)]
    /\ conversations = [c \in ConversationIds |-> Some(NewConversation)]
    /\ messages = <<>>
    /\ usageLog = <<>>
    /\ client = NoClient

HandlerStep(r, limit) ==
    \/ Receive(r, limit)
    \/ FindUser(r)
    \/ SaveUser(r)
    \/ FindConversation(r)
    \/ FindLastAssistant(r)
    \/ DeleteLastAssistant(r)
    \/ DecrementConversation(r)
    \/ FindMessages(r)
    \/ CreateUserMessage(r)
    \/ ReturnStream(r)
    \/ Throw(r)

RelayStep(r, chunks, maxReads) ==
    \/ FetchResolves(r)
    \/ ReadChunk(r, chunks, maxReads)
    \/ ReadDone(r)
    \/ Reject(r)
    \/ Timeout(r)
    \/ Cancel(r)
    \/ AbortedWake(r)

TaskStep(r) ==
    \/ TaskCreateMessage(r)
    \/ TaskUpdateConversation(r)
    \/ TaskUpdateUser(r)
    \/ TaskCreateLog(r)
    \/ TaskUpdateTitle(r)
    \/ TaskThrow(r)

Next ==
    \E r \in Requests :
        \/ HandlerStep(r, NumRequests)
        \/ RelayStep(r, RouteChunks, MaxReads)
        \/ TaskStep(r)

Spec == Init /\ [][Next]_vars

(***************************************************************************)
(* SpecCap: the behaviours of CapRequests parallel requests in which no    *)
(* database operation fails and no stream ends by completion or cancel     *)
(***************************************************************************)
NextCap ==
    \E r \in Requests :
        \/ Receive(r, CapRequests)
        \/ FindUser(r)
        \/ SaveUser(r)
        \/ FindConversation(r)
        \/ FindLastAssistant(r)
        \/ FindMessages(r)
        \/ CreateUserMessage(r)
        \/ ReturnStream(r)
        \/ FetchResolves(r)
        \/ ReadChunk(r, RouteChunks, MaxReads)

SpecCap == Init /\ [][NextCap]_vars

(***************************************************************************)
(* SpecRelay: one request and its relay, the upstream body delivered in    *)
(* chunks that split, join and garble the frames                           *)
(***************************************************************************)
RelayChunks ==
    { <<"data: ", "{", "a", "}", "\n">>,
      <<"data: ", "{", "b">>,
      <<"}", "\n", "data: ", "[DONE]", "\n">>,
      <<"data: ", "{", "U", "}", "\n">>,
      <<"data: ", "x", "\n">>,
      <<"a", "\n", "\n">> }

NextRelay ==
    \E r \in Requests :
        \/ Receive(r, 1)
        \/ FindUser(r)
        \/ SaveUser(r)
        \/ FindConversation(r)
        \/ FindLastAssistant(r)
        \/ FindMessages(r)
        \/ CreateUserMessage(r)
        \/ ReturnStream(r)
        \/ RelayStep(r, RelayChunks, MaxRelayReads)

SpecRelay == Init /\ [][NextRelay]_vars

(***************************************************************************)
(* SpecSignal: the relay called directly by a caller that passes a signal  *)
(***************************************************************************)
NextSignal ==
    \E r \in Requests :
        \/ CallRelay(r)
        \/ AbortSignal(r)
        \/ RelayStep(r, RelayChunks, MaxRelayReads)

SpecSignal == Init /\ [][NextSignal]_vars

(***************************************************************************)
(* SpecSplit: the relay called directly; the upstream sends one of a few   *)
(* bodies whole, and the network splits it into reads in every way         *)
(***************************************************************************)
\* two frames (the second with usage) and the sentinel; two frames, the last
\* line not ended by a line feed; frames among blank and malformed lines
SplitBodies ==
    { <<"data: ", "{", "a", "}", "\n", "data: ", "{", "b", "U", "}", "\n",
        "data: ", "[DONE]", "\n">>,
      <<"data: ", "{", "a", "}", "\n", "data: ", "{", "b", "}">>,
      <<" ", "data: ", "{", "b", "}", " ", "\n", "\n", "data: ", "x", "\n",
        "data: ", "{", "a", "}", "\n">> }

NextSplit ==
    \E r \in Requests :
        \/ CallRelay(r)
        \/ FetchResolves(r)
        \/ ReadSplit(r, SplitBodies)
        \/ (stream[r].received \in SplitBodies /\ ReadDone(r))

SpecSplit == Init /\ [][NextSplit]_vars

(***************************************************************************)
(* SpecAdmission: the admission controller called directly                 *)
(***************************************************************************)
NextAdmission ==
    \/ CallCheck
    \/ CallStart
    \/ CallEnd
    \/ Tick

InitAdmission == Init /\ apiKey

SpecAdmission == InitAdmission /\ [][NextAdmission]_vars

(***************************************************************************)
(* SpecContext: the context manager called directly                        *)
(***************************************************************************)
NextContext ==
    \/ CallBuildContext
    \/ CallTruncateMessage
    \/ CallValidateUserInput

InitContext == Init /\ apiKey

SpecContext == InitContext /\ [][NextContext]_vars

(***************************************************************************)
(* SpecReset: the routes while time passes                                 *)
(***************************************************************************)
NextReset ==
    \/ Next
    \/ Tick
    \/ NextDay

SpecReset == Init /\ [][NextReset]_vars

(***************************************************************************)
(* SpecHistory: the routes on a conversation that has a history.  Two      *)
(* sends were answered the day before (the update of the title failed);    *)
(* the day's counters are still those of that day.                         *)
(***************************************************************************)
HistoryMessages ==
    << [id |-> MessageId(0 - 1, "user"), conversationId |-> "c1", role |-> "user",
        content |-> <<Run("hi", 2)>>, tokenCount |-> 0],
       [id |-> MessageId(0 - 1, "assistant"), conversationId |-> "c1", role |-> "assistant",
        content |-> TextOf(<<"a">>), tokenCount |-> UsageFrame.completion_tokens],
       [id |-> MessageId(0, "user"), conversationId |-> "c1", role |-> "user",
        content |-> <<Run("hi", 2)>>, tokenCount |-> 0],
       [id |-> MessageId(0, "assistant"), conversationId |-> "c1", role |-> "assistant",
        content |-> TextOf(<<"a">>), tokenCount |-> UsageFrame.completion_tokens] >>

\* the tokens the two answers were accounted with
HistoryTokens == 2 * (UsageFrame.prompt_tokens + UsageFrame.completion_tokens)

InitHistory ==
    /\ now = DAY_MS
    /\ ticks = 0
    /\ rateLimitStore = [k \in RateKeys |-> NoEntry]
    /\ concurrentRequests = [u \in Users |-> 0]
    /\ lastCall = NoCall
    /\ apiKey \in BOOLEAN
    /\ pc = [r \in Requests |-> "idle"]
    /\ req = [r \in Requests |-> NoReq]
    /\ response = [r \in Requests |-> NoResponse]
    /\ stream = [r \in Requests |-> NoStream]
    /\ task = [r \in Requests |-> NoTask]
    /\ hist = [r \in Requests |-> NoHist]
    /\ userDocs = [u \in Users |-> Some([dailyTokensUsed |-> HistoryTokens,
                                         totalTokensUsed |-> HistoryTokens,
                                         dailyMessages |-> 2,
                                         dailyResetAt |-> Some(0)])]
    /\ conversations = [c \in ConversationIds |->
                            Some([NewConversation EXCEPT !.messageCount = 4,
                                                         !.totalTokens = HistoryTokens])]
    /\ messages = HistoryMessages
    /\ usageLog = <<>>
    /\ client = NoClient

SpecHistory == InitHistory /\ [][Next]_vars

(***************************************************************************)
(* SpecDelete: the routes and the deletion of the conversation, on a       *)
(* conversation that has a history                                         *)
(***************************************************************************)
DeleteStep(r, limit) ==
    \/ ReceiveDelete(r, limit)
    \/ DeleteConversation(r)
    \/ DeleteMessages(r)
    \/ DeleteThrow(r)

NextDelete ==
    \/ Next
    \/ \E r \in Requests : DeleteStep(r, NumRequests)

SpecDelete == InitHistory /\ [][NextDelete]_vars

(***************************************************************************)
(* SpecClient: sendMessage of the client hook, for every answer of the     *)
(* server                                                                  *)
(***************************************************************************)
NextClient ==
    \/ SendMessage
    \/ SendFetchResolves
    \/ SendReadResolves

SpecClient == Init /\ [][NextClient]_vars

(***************************************************************************)
(* Properties of the concurrency counter in the route handlers             *)
(***************************************************************************)
\* the tier the specification gives a role: its own, or the user tier when the
\* table does not know the role
ExpectedTier(role) ==
    IF role = "moderator" THEN AI_RATE_LIMITS["moderator"]
    ELSE IF role = "admin" THEN AI_RATE_LIMITS["admin"]
    ELSE AI_RATE_LIMITS["user"]

\* the cap of a user of the route specifications
CapOf(u) == ExpectedTier((CHOOSE i \in Identities : i.userId = u).role).maxConcurrentRequests

\* the requests of user u whose SSE response has been returned and whose upstream
\* stream is open: started, and not ended by Done, Error or cancellation
OpenStreams(u) ==
    {r \in Requests : /\ response[r].streaming
                      /\ stream[r].status = "open"
                      /\ req[r].userId = Some(u)}

\* the requests that have called startRequest
Started == {r \in Requests : hist[r].starts > 0}

\* a request is over: its handler has returned, its stream (if any) has ended and
\* its persistence (if any) has finished
Completed(r) ==
    /\ pc[r] = "returned"
    /\ stream[r].status # "open"
    /\ task[r].at \in {"none", "done", "failed"}

\* C1: the number of a user's requests whose upstream stream is open at the same
\* time never exceeds maxConcurrentRequests of the user's tier.
C1_OpenStreamsWithinCap ==
    \A u \in Users : Cardinality(OpenStreams(u)) <= CapOf(u)

\* C2: the counter of a user equals the number of the user's requests that have
\* called startRequest and whose stream has not ended yet.
C2_CounterCountsOpenStreams ==
    \A u \in Users :
        concurrentRequests[u] =
            Cardinality({r \in Started : pc[r] = "awaitStream" \/ r \in OpenStreams(u)})

\* C3: a request that has called startRequest calls endRequest only on the step
\* that ends its stream or its persistence, never while its stream is still open.
C3_EndRequestAtTerminalTransition ==
    [][\A r \in Requests :
          (hist[r].starts > 0 /\ hist'[r].ends > hist[r].ends)
              => (stream'[r].status # "open" /\ hist'[r].ends = 1)]_vars

\* C4: the counter of a user never exceeds maxConcurrentRequests of the user's
\* tier, whatever the interleaving of the user's parallel requests.
C4_CounterWithinCap ==
    \A u \in Users : concurrentRequests[u] <= CapOf(u)

\* C5: whenever all requests of a user have completed, on any exit path, the
\* user's counter is zero.
C5_CounterZeroWhenAllCompleted ==
    (\A r \in Requests : pc[r] = "idle" \/ Completed(r))
        => \A u \in Users : concurrentRequests[u] = 0

\* two requests have completed: one streamed to the end after startRequest, the
\* other was rejected and reached the finally block without startRequest
C5_Witness ==
    /\ \A r \in Requests : pc[r] = "idle" \/ Completed(r)
    /\ \E r \in Requests :
          /\ hist[r].starts = 1 /\ hist[r].ends = 1
          /\ stream[r].onCompleteCalls = 1
          /\ task[r].at = "done"
    /\ \E r \in Requests :
          /\ hist[r].starts = 0 /\ hist[r].ends = 1
          /\ response[r].status = 404
    /\ concurrentRequests["u1"] = 0

(***************************************************************************)
(* Properties of the admission controller called directly                  *)
(***************************************************************************)
Checked == lastCall.op = "checkAIRateLimit"

\* before the last check: the caller's window was live and full
RateExhausted ==
    /\ lastCall.entryBefore # NoEntry
    /\ lastCall.at < lastCall.entryBefore.resetTime
    /\ lastCall.entryBefore.count >= ExpectedTier(lastCall.role[1]).messagesPerHour

\* before the last check: the daily tokens passed had reached the tier's limit
QuotaExhausted == lastCall.tokens >= ExpectedTier(lastCall.role[1]).dailyTokenLimit

\* C6: for any sequence of startRequest and endRequest calls, the counter of a
\* user is never below zero.
C6_CounterNonNegative ==
    \A u \in Users : concurrentRequests[u] >= 0

\* endRequest has just been called on a counter that was zero
C6_Witness ==
    /\ lastCall.op = "endRequest"
    /\ lastCall.concurrentBefore = 0
    /\ concurrentRequests["u1"] = 0

\* C7: with the counter at the tier's cap and neither the rate window nor the
\* daily quota exhausted, checkAIRateLimit denies with the reason of the
\* concurrency check and no retryAfter.
C7_DeniesOnConcurrency ==
    ( /\ Checked
      /\ lastCall.concurrentBefore = ExpectedTier(lastCall.role[1]).maxConcurrentRequests
      /\ ~RateExhausted
      /\ ~QuotaExhausted )
        => lastCall.result = Some([allowed |-> FALSE, reason |-> Some(REASON_CONCURRENT),
                                    remaining |-> None, retryAfter |-> None])

\* a moderator with three requests started, a window in use and the quota one
\* token short of the limit has just been denied
C7_Witness ==
    /\ Checked
    /\ lastCall.role = Some("moderator")
    /\ lastCall.concurrentBefore = 3
    /\ lastCall.entryBefore.count > 0
    /\ lastCall.tokens = 200000 - 1
    /\ ~RateExhausted
    /\ lastCall.result[1].reason = Some(REASON_CONCURRENT)

\* C8: the first failing check decides.  A caller whose window is full is denied
\* with the rate reason and a retryAfter, whatever the quota and the counter; a
\* caller who passes the rate check with dailyTokens >= dailyTokenLimit is denied
\* with zero remaining tokens, whatever the counter.
C8_FirstFailingCheckDecides ==
    Checked =>
        /\ RateExhausted =>
              /\ lastCall.result[1].allowed = FALSE
              /\ lastCall.result[1].reason = Some(REASON_RATE)
              /\ lastCall.result[1].retryAfter # None
              /\ lastCall.result[1].retryAfter[1] > 0
        /\ (~RateExhausted /\ QuotaExhausted) =>
              /\ lastCall.result[1].allowed = FALSE
              /\ lastCall.result[1].reason = Some(REASON_TOKENS)
              /\ lastCall.result[1].retryAfter = None
              /\ lastCall.result[1].remaining # None
              /\ lastCall.result[1].remaining[1].tokens = 0

\* a user whose window is full, whose quota is used up and whose counter is at the
\* cap is denied on the rate
C8_Witness ==
    /\ Checked
    /\ lastCall.role = Some("user")
    /\ RateExhausted
    /\ QuotaExhausted
    /\ lastCall.concurrentBefore >= 2
    /\ lastCall.result[1].reason = Some(REASON_RATE)

\* C9: a caller with no prior activity (no live window, no daily tokens used,
\* counter zero) is admitted for every role, a role unknown to the table with the
\* allowances of the user tier.
C9_FreshUserAdmitted ==
    ( /\ Checked
      /\ lastCall.entryBefore = NoEntry \/ lastCall.at >= lastCall.entryBefore.resetTime
      /\ lastCall.tokens = 0
      /\ lastCall.concurrentBefore = 0 )
        => lastCall.result =
              Some([allowed |-> TRUE, reason |-> None,
                    remaining |-> Some(
                        [messages |-> ExpectedTier(lastCall.role[1]).messagesPerHour - 1,
                         tokens |-> ExpectedTier(lastCall.role[1]).dailyTokenLimit]),
                    retryAfter |-> None])

\* the first call ever is a check for a role the table does not know
C9_Witness ==
    /\ Checked
    /\ lastCall.role = Some("guest")
    /\ lastCall.entryBefore = NoEntry
    /\ lastCall.tokens = 0
    /\ lastCall.concurrentBefore = 0
    /\ lastCall.result[1].allowed

(***************************************************************************)
(* Properties of the relay                                                 *)
(***************************************************************************)
\* the positions of the terminal events among the events of a stream
Terminals(wire) == {i \in 1 .. Len(wire) : wire[i].type \in {"done", "error"}}

\* C10: a stream that the caller has not cancelled holds no terminal event while
\* it is open and, once closed, exactly one, Done or Error, as its last event.
C10_ExactlyOneTerminalEvent ==
    \A r \in Requests :
        /\ stream[r].status = "open" => Terminals(stream[r].wire) = {}
        /\ stream[r].status = "closed" =>
              Terminals(stream[r].wire) = {Len(stream[r].wire)}

\* a stream closed by Done after two Token events and the upstream's [DONE] line
C10_Witness ==
    \E r \in Requests :
        /\ stream[r].status = "closed"
        /\ Len(stream[r].wire) = 3
        /\ stream[r].wire[1].type = "token"
        /\ stream[r].wire[2] = TokenEvent(<<"b">>)
        /\ stream[r].wire[3].type = "done"

(***************************************************************************)
(* What the upstream sent, read off the bytes received                     *)
(***************************************************************************)
\* the lines the upstream has finished (ended by a line feed), in order
RECURSIVE WholeLines(_, _)
WholeLines(s, cur) ==
    IF s = <<>> THEN <<>>
    ELSE IF Head(s) = "\n" THEN <<cur>> \o WholeLines(Tail(s), <<>>)
    ELSE WholeLines(Tail(s), Append(cur, Head(s)))

\* the frame of a line of the shape `data: <json>`, the sentinel excluded
FrameOf(line) ==
    LET t == Trim(line) IN
    IF t # <<>> /\ Head(t) = "data: " /\ Tail(t) # <<"[DONE]">>
    THEN JSONparse(Tail(t))
    ELSE [ok |-> FALSE, content |-> <<>>, usage |-> None]

\* a line that is neither blank, nor the sentinel, nor a frame that parses
Malformed(line) ==
    /\ Trim(line) # <<>>
    /\ Trim(line) # <<"data: ", "[DONE]">>
    /\ ~FrameOf(line).ok

\* the texts of the deltas of a sequence of lines, in order
RECURSIVE Deltas(_)
Deltas(lines) ==
    IF lines = <<>> THEN <<>>
    ELSE (IF FrameOf(Head(lines)).ok /\ FrameOf(Head(lines)).content # <<>>
          THEN <<FrameOf(Head(lines)).content>> ELSE <<>>) \o Deltas(Tail(lines))

\* the usage counters of the last frame that reports usage, zeros if none does
RECURSIVE ReportedUsage(_)
ReportedUsage(lines) ==
    IF lines = <<>> THEN [prompt_tokens |-> 0, completion_tokens |-> 0]
    ELSE LET last == lines[Len(lines)] IN
         IF FrameOf(last).ok /\ FrameOf(last).usage # None THEN FrameOf(last).usage[1]
         ELSE ReportedUsage(SubSeq(lines, 1, Len(lines) - 1))

\* the stream has ended with a Done event
EndedWithDone(r) ==
    /\ stream[r].status = "closed"
    /\ stream[r].wire # <<>>
    /\ stream[r].wire[Len(stream[r].wire)].type = "done"

\* C11: on graceful end-of-stream the Token events are the deltas of the lines
\* the upstream sent, in their order, and the Done event carries their
\* concatenation and the usage the upstream reported (zeros if none), with
\* totalTokens = inputTokens + outputTokens.
C11_DoneAggregatesTokens ==
    \A r \in Requests :
        EndedWithDone(r) =>
            LET wire == stream[r].wire
                lines == WholeLines(stream[r].received, <<>>)
                done == wire[Len(wire)]
                reported == ReportedUsage(lines)
            IN /\ TokenTexts(wire) = Deltas(lines)
               /\ done.text = Concat(TokenTexts(wire))
               /\ done.usage = Some([inputTokens |-> reported.prompt_tokens,
                                     outputTokens |-> reported.completion_tokens,
                                     totalTokens |-> reported.prompt_tokens
                                                        + reported.completion_tokens])

\* a stream ended with Done after two deltas, the second split over two reads,
\* and a usage frame
C11_Witness ==
    \E r \in Requests :
        /\ EndedWithDone(r)
        /\ stream[r].wire =
              <<TokenEvent(<<"a">>), TokenEvent(<<"b">>),
                DoneEvent(<<"a", "b">>, [inputTokens |-> 96000, outputTokens |-> 4000,
                                         totalTokens |-> 100000])>>

\* the number of Error events of a stream
Errors(wire) == Cardinality({i \in 1 .. Len(wire) : wire[i].type = "error"})

\* C12: a line that is not a frame that parses is skipped without ending the
\* stream: the deltas before and after it still give their Token events, no
\* Error event is emitted for it, the stream ends with a normal Done when the
\* upstream ends, and the sentinel is never forwarded as a Token.
C12_MalformedLineSkipped ==
    \A r \in Requests :
        LET lines == WholeLines(stream[r].received, <<>>) IN
        (\E i \in 1 .. Len(lines) : Malformed(lines[i])) =>
            /\ Len(TokenTexts(stream[r].wire)) = Len(Deltas(lines))
            /\ \A i \in 1 .. Len(stream[r].wire) :
                  stream[r].wire[i].type = "token" =>
                      \A k \in 1 .. Len(stream[r].wire[i].text) :
                          stream[r].wire[i].text[k] \in {"a", "b"}
            /\ Errors(stream[r].wire) = stream[r].onErrorCalls
            /\ stream[r].status = "open" =>
                  (stream[r].at = "read" /\ Terminals(stream[r].wire) = {})
            /\ (stream[r].status = "closed" /\ stream[r].onErrorCalls = 0) => EndedWithDone(r)

\* a frame, a line of invalid JSON, a frame split over two reads and the
\* sentinel: both deltas are relayed and the stream ends with Done
C12_Witness ==
    \E r \in Requests :
        LET lines == WholeLines(stream[r].received, <<>>) IN
        /\ Len(lines) = 4
        /\ ~Malformed(lines[1])
        /\ Malformed(lines[2])
        /\ lines[4] = <<"data: ", "[DONE]">>
        /\ EndedWithDone(r)
        /\ TokenTexts(stream[r].wire) = << <<"a">>, <<"b">> >>

C14_NoDoneAfterAbort ==
    /\ [](\A r \in Requests :
             stream[r].aborted =>
                /\ \A i \in 1 .. Len(stream[r].wire) : stream[r].wire[i].type # "done"
                /\ stream[r].onCompleteCalls = 0
                /\ task[r] = NoTask)
    /\ [][\A r \in Requests :
             stream[r].aborted => stream'[r].received = stream[r].received]_vars

\* the consumer cancelled after one Token event and the aborted read has woken up
C14_Witness ==
    \E r \in Requests :
        /\ stream[r].aborted
        /\ stream[r].status = "cancelled"
        /\ stream[r].at = "end"
        /\ stream[r].wire = <<TokenEvent(<<"a">>)>>

\* C15: after the caller has aborted the signal it passed in the options, the
\* relay finishes at most the read-loop iteration in progress: it reads at most
\* one more chunk from the upstream.
C15_SignalAbortStopsReading ==
    \A r \in Requests :
        (stream[r].signal = "aborted" /\ stream[r].at = "read")
            => stream[r].reads <= stream[r].abortedAtRead + 1

\* C16: as long as the relay awaits the upstream (the response headers or a
\* body read) the 60-second timeout is armed, so that a stalled upstream is
\* aborted.
C16_TimeoutArmedWhileAwaiting ==
    \A r \in Requests :
        (stream[r].status = "open" /\ stream[r].at \in {"fetch", "read"})
            => stream[r].timeoutArmed

(***************************************************************************)
(* Properties of the route handlers' error handling                        *)
(***************************************************************************)
\* the ids of the messages stored
MessageIds == {messages[i].id : i \in 1 .. Len(messages)}

\* C17: a request rejected with 401, 400, 404 or 429 has issued no upstream call
\* and opened no stream (nor called startRequest); its response is one JSON
\* error.
C17_RejectionOpensNoStream ==
    \A r \in Requests :
        response[r].status \in {400, 401, 404, 429} =>
            /\ ~response[r].streaming
            /\ response[r].error # None
            /\ stream[r] = NoStream
            /\ task[r] = NoTask
            /\ hist[r].starts = 0

\* a request denied on the daily quota after another request's answer used it up
C17_Witness ==
    \E r \in Requests :
        /\ response[r] = JsonResponse(429, REASON_TOKENS, None)
        /\ stream[r] = NoStream
        /\ \E q \in Requests : task[q].at = "done"

\* C18: when the upstream call of an admitted send request fails (non-success
\* status, or an error in mid-stream), the request's user message is stored and
\* no assistant message is stored for it.
C18_UpstreamFailureKeepsUserMessage ==
    \A r \in Requests :
        (req[r].kind = "send" /\ stream[r].status = "closed" /\ stream[r].onErrorCalls = 1)
            => /\ MessageId(r, "user") \in MessageIds
               /\ MessageId(r, "assistant") \notin MessageIds

\* a send request whose upstream failed after one Token event
C18_Witness ==
    \E r \in Requests :
        /\ req[r].kind = "send"
        /\ stream[r].wire = <<TokenEvent(<<"a">>), ErrorEvent(<<"fetch failed">>)>>
        /\ MessageId(r, "user") \in MessageIds
        /\ MessageId(r, "assistant") \notin MessageIds

\* C19: when a persistence write fails after the stream completed with Done, the
\* client's stream is still Token events followed by exactly one Done, with no
\* Error frame, and the response stays the streaming response.
C19_PersistenceFailureNotSurfaced ==
    \A r \in Requests :
        task[r].at = "failed" =>
            /\ EndedWithDone(r)
            /\ Terminals(stream[r].wire) = {Len(stream[r].wire)}
            /\ stream[r].onErrorCalls = 0
            /\ response[r] = StreamResponse

\* the write of the assistant message failed after a stream of one Token and Done
C19_Witness ==
    \E r \in Requests :
        /\ task[r].at = "failed"
        /\ MessageId(r, "assistant") \notin MessageIds
        /\ Len(stream[r].wire) = 2
        /\ stream[r].wire[1] = TokenEvent(<<"a">>)
        /\ stream[r].wire[2].type = "done"

\* C20: a regenerate request whose Message.find finds no message in the
\* conversation does not go on to startRequest and the upstream call: it returns
\* the nothing-to-regenerate error (400), or the handler's 500 when the query
\* itself failed.
C20_RegenerateEmptyHistory ==
    [][\A r \in Requests :
          ( /\ pc[r] = "findMessages"
            /\ req[r].kind = "regenerate"
            /\ CountOf(messages, req[r].conversationId[1]) = 0
            /\ pc'[r] # pc[r] )
              => /\ pc'[r] = "returned"
                 /\ response'[r] \in {JsonResponse(400, "No messages to regenerate from", None),
                                      Failed("regenerate")}
                 /\ stream'[r] = NoStream
                 /\ hist'[r].starts = 0]_vars

\* a regenerate request on the empty conversation got the 400
C20_Witness ==
    \E r \in Requests :
        /\ response[r] = JsonResponse(400, "No messages to regenerate from", None)
        /\ messages = <<>>
        /\ stream[r] = NoStream
        /\ hist[r].starts = 0 /\ hist[r].ends = 1

(***************************************************************************)
(* Properties of the regenerate route                                      *)
(***************************************************************************)
\* where the assistant messages of a conversation are in the collection
AssistantAt(c) ==
    {i \in 1 .. Len(messages) : messages[i].conversationId = c /\ messages[i].role = "assistant"}

\* the ids of the messages of a context, the system message apart
ContextIds(context) ==
    {context[i].id : i \in {j \in 1 .. Len(context) : context[j].role # "system"}}

\* C21 as stated: a regenerate request past admission and the conversation lookup takes
\* the most recent assistant message of the conversation, if there is one,
\* deletes exactly that message, decrements messageCount by 1 and totalTokens by
\* the tokenCount of that message, all before it builds the context; the context
\* it sends upstream does not contain the deleted message.
C21_RegenerateDeletesLastAssistant ==
    [][\A r \in Requests :
          LET c == req[r].conversationId[1]
              found == req[r].lastAssistantMessage[1]
          IN
          /\ (pc[r] = "findLastAssistant" /\ pc'[r] \notin {"findLastAssistant", "returned"}) =>
                IF AssistantAt(c) = {}
                THEN pc'[r] = "findMessages" /\ hist'[r].deleted = None
                ELSE /\ pc'[r] = "deleteLastAssistant"
                     /\ \E i \in AssistantAt(c) :
                           /\ \A j \in AssistantAt(c) : j <= i
                           /\ req'[r].lastAssistantMessage = Some(messages[i])
          /\ (pc[r] = "deleteLastAssistant" /\ pc'[r] = "decrementConversation") =>
                /\ Len(messages') = Len(messages) - 1
                /\ \A i \in 1 .. Len(messages) :
                      (messages[i].id # found.id) <=>
                          (\E j \in 1 .. Len(messages') : messages'[j] = messages[i])
                /\ hist'[r].deleted = Some(found.id)
                /\ stream'[r] = NoStream
          /\ (pc[r] = "decrementConversation" /\ pc'[r] = "findMessages") =>
                /\ conversations'[c][1].messageCount = conversations[c][1].messageCount - 1
                /\ conversations'[c][1].totalTokens =
                       conversations[c][1].totalTokens - found.tokenCount
                /\ stream'[r] = NoStream
          /\ (pc[r] = "findMessages" /\ pc'[r] = "awaitStream"
              /\ req[r].kind = "regenerate" /\ apiKey) =>
                /\ stream'[r].messages # <<>>
                /\ ContextIds(stream'[r].messages) \subseteq
                       {messages[i].id : i \in 1 .. Len(messages)}
                /\ hist[r].deleted # None =>
                       hist[r].deleted[1] \notin ContextIds(stream'[r].messages)]_vars

(***************************************************************************)
(* Properties of the context manager                                       *)
(***************************************************************************)
NonSystem(msgs) == SelectSeq(msgs, LAMBDA m : m.role # "system")

\* a call of buildContext: its options with the defaults applied, its input
\* without the system messages, the messages it kept
BuildCall == lastCall.op = "buildContext"
GivenMaxMessages == Default(lastCall.options.maxMessages, MAX_CONTEXT_MESSAGES)
GivenMaxChars == Default(lastCall.options.maxChars, MAX_CONTEXT_CHARS)
GivenInclude == Default(lastCall.options.includeSystemPrompt, TRUE)
InputMessages == NonSystem(lastCall.messages)
KeptMessages == NonSystem(lastCall.result.messages)

\* the most recent message of the input, truncated on its own
LastTruncated ==
    [InputMessages[Len(InputMessages)] EXCEPT
        !.content = truncateMessage(InputMessages[Len(InputMessages)].content,
                                    MAX_MESSAGE_CHARS)]

\* C22: for any input sequence and any maxMessages >= 1, buildContext returns at
\* most maxMessages messages that are not the system message.
C22_AtMostMaxMessages ==
    (BuildCall /\ GivenMaxMessages >= 1) => Len(KeptMessages) <= GivenMaxMessages

\* the cut to the last maxMessages messages has dropped messages, under the
\* default of 15 and under a given maxMessages
C22_Witness ==
    /\ BuildCall
    /\ GivenMaxMessages >= 1
    /\ lastCall.options.maxChars = None
    /\ Len(InputMessages) > GivenMaxMessages
    /\ Len(KeptMessages) = GivenMaxMessages

\* the characters of the result: the system prompt when included and every
\* kept message
TotalChars == SumOfLengths(lastCall.result.messages)

\* C23 as stated: the total character length of the result is at most maxChars,
\* unless the most recent message alone (truncated) exceeds maxChars, and then
\* exactly that message is kept.
C23_TotalWithinMaxChars ==
    BuildCall =>
        \/ TotalChars <= GivenMaxChars
        \/ /\ InputMessages # <<>>
           /\ Length(LastTruncated.content) > GivenMaxChars
           /\ KeptMessages = <<LastTruncated>>

\* what the system prompt, when included, and the most recent message take alone
AloneChars ==
    (IF GivenInclude
     THEN Length(getSystemPromptContent(
                    Some(Default(lastCall.options.systemPromptVersion, CURRENT_PROMPT_VERSION))))
     ELSE 0)
    + (IF InputMessages = <<>> THEN 0 ELSE Length(LastTruncated.content))

\* C23, amended: the total character length of the result is at most maxChars,
\* unless the system prompt (when included) plus the most recent message alone
\* exceed maxChars, and then no message but that one is kept.
C23_TotalWithinMaxCharsUnlessAlone ==
    BuildCall =>
        \/ TotalChars <= GivenMaxChars
        \/ /\ AloneChars > GivenMaxChars
           /\ Len(KeptMessages) <= 1
           /\ KeptMessages # <<>> => KeptMessages = <<LastTruncated>>

\* older messages were dropped down to the most recent one, which fits maxChars
\* alone but not together with the system prompt
C23_Witness ==
    /\ BuildCall
    /\ GivenMaxMessages >= 2
    /\ Len(InputMessages) >= 2
    /\ Length(LastTruncated.content) <= GivenMaxChars
    /\ TotalChars > GivenMaxChars
    /\ KeptMessages = <<LastTruncated>>

\* C24 as stated: with maxMessages <= 0 and the system prompt included,
\* buildContext returns the system message and nothing else.
C24_NoMessagesWhenMaxMessagesNotPositive ==
    (BuildCall /\ GivenMaxMessages <= 0 /\ GivenInclude) =>
        /\ Len(lastCall.result.messages) = 1
        /\ lastCall.result.messages[1].role = "system"

\* C25: with maxMessages >= 1 and an input that has a message other than system
\* messages, the last element of the result is the last such message of the
\* input, truncated on its own, whatever maxChars is.
C25_NewestMessageSurvives ==
    (BuildCall /\ GivenMaxMessages >= 1 /\ InputMessages # <<>>) =>
        /\ lastCall.result.messages # <<>>
        /\ lastCall.result.messages[Len(lastCall.result.messages)] = LastTruncated

\* the newest message alone exceeds maxChars and is what is kept of several
C25_Witness ==
    /\ BuildCall
    /\ GivenMaxMessages >= 2
    /\ Len(InputMessages) >= 2
    /\ Length(LastTruncated.content) > GivenMaxChars
    /\ KeptMessages = <<LastTruncated>>

C27_TruncatedLength ==
    lastCall.op = "truncateMessage" =>
        LET limit == Default(lastCall.maxChars, MAX_MESSAGE_CHARS) IN
        IF Length(lastCall.content) > limit
        THEN /\ lastCall.result = Substring(lastCall.content, limit - 100) \o TRUNCATION_MARKER
             /\ Length(lastCall.result) = limit - 100 + Length(TRUNCATION_MARKER)
             /\ Length(lastCall.result) <= limit
        ELSE lastCall.result = lastCall.content

\* C28 as stated: trimmedCount is the number of messages of the input, system
\* messages apart, minus the number of such messages in the result.
C28_TrimmedCountIsDropped ==
    BuildCall => lastCall.result.trimmedCount = Len(InputMessages) - Len(KeptMessages)

(***************************************************************************)
(* Properties of the input validation                                      *)
(***************************************************************************)
\* content is missing, empty or white space only
Blank(content) ==
    \/ content = None
    \/ \A i \in 1 .. Len(content[1]) : content[1][i][1] \in WhiteSpace

\* the content without the white space at its ends matches a suspicious pattern
Suspicious(content) ==
    \E i \in 1 .. Len(suspiciousPatterns) : test(suspiciousPatterns[i], TrimText(content[1]))

\* C29 as stated: validateUserInput rejects content exactly when it is missing,
\* empty or white space only, or longer than MAX_MESSAGE_CHARS.
C29_RejectsBlankOrLongContent ==
    lastCall.op = "validateUserInput" =>
        (lastCall.result.valid <=>
            ~(Blank(lastCall.content) \/ Length(lastCall.content[1]) > MAX_MESSAGE_CHARS))

\* C29, amended: validateUserInput rejects content exactly when it is missing,
\* empty or white space only, or longer than MAX_MESSAGE_CHARS once the white
\* space at its ends is removed; a match of a suspicious pattern does not change
\* the result.
C29_RejectsBlankOrLongTrimmedContent ==
    lastCall.op = "validateUserInput" =>
        /\ lastCall.result.valid <=>
              ~(Blank(lastCall.content)
                \/ Length(TrimText(lastCall.content[1])) > MAX_MESSAGE_CHARS)
        /\ lastCall.result.warned => lastCall.result.valid
        /\ (~Blank(lastCall.content) /\ Suspicious(lastCall.content)
            /\ Length(TrimText(lastCall.content[1])) <= MAX_MESSAGE_CHARS)
              => (lastCall.result.valid /\ lastCall.result.warned)

\* content longer than the limit that matches a pattern and is accepted, its
\* trimmed form being within the limit
C29_Witness ==
    /\ lastCall.op = "validateUserInput"
    /\ lastCall.content # None
    /\ Length(lastCall.content[1]) > MAX_MESSAGE_CHARS
    /\ Suspicious(lastCall.content)
    /\ lastCall.result.valid
    /\ lastCall.result.warned

(***************************************************************************)
(* Properties of the lazy daily reset                                      *)
(***************************************************************************)
\* C30: a request that has read the user record zeroes the daily counters and
\* stamps them with the current time exactly when the record has no reset
\* timestamp or the timestamp is of another UTC date than the current one; a
\* request that reads the record after a reset of the same UTC date was stored
\* leaves the counters alone.
C30_ResetExactlyOnNewUTCDate ==
    [][\A r \in Requests :
          (pc[r] = "findUser" /\ pc'[r] # "findUser" /\ response'[r] # Failed(req[r].kind)) =>
              LET dbUser == userDocs[req[r].userId[1]][1]
                  newDate == \/ dbUser.dailyResetAt = None
                             \/ UTCDay(now) # UTCDay(dbUser.dailyResetAt[1])
              IN IF newDate
                 THEN /\ pc'[r] = "saveUser"
                      /\ req'[r].dbUser = Some([dbUser EXCEPT !.dailyTokensUsed = 0,
                                                              !.dailyMessages = 0,
                                                              !.dailyResetAt = Some(now)])
                 ELSE /\ pc'[r] # "saveUser"
                      /\ userDocs' = userDocs]_vars

\* a request is denied for the daily quota used up since the reset stored
\* earlier on the same UTC date
C30_Witness ==
    /\ userDocs["u1"] # None
    /\ userDocs["u1"][1].dailyResetAt # None
    /\ userDocs["u1"][1].dailyResetAt[1] < now
    /\ UTCDay(userDocs["u1"][1].dailyResetAt[1]) = UTCDay(now)
    /\ userDocs["u1"][1].dailyTokensUsed > 0
    /\ \E r \in Requests :
          /\ pc[r] = "returned"
          /\ response[r].status = 429
          /\ response[r].error = Some(REASON_TOKENS)

(***************************************************************************)
(* Properties of the usage accounting                                      *)
(***************************************************************************)
\* the sum of the usage totals the ledger holds for a user
RECURSIVE LedgerTotal(_, _)
LedgerTotal(log, u) ==
    IF log = <<>> THEN 0
    ELSE (IF Head(log).userId = u THEN Head(log).totalTokens ELSE 0) + LedgerTotal(Tail(log), u)

\* no request is in progress and no write of the persistence has failed
AllOverNoWriteFailed ==
    \A r \in Requests : (pc[r] = "idle" \/ Completed(r)) /\ task[r].at # "failed"

\* C31 as stated: the lazy daily reset of one request and the completion-time
\* increment of another request of the same user do not lose an increment of
\* totalTokensUsed: once the requests are over, totalTokensUsed is the sum of the
\* usage totals of the user's completions in the usage ledger.
C31_NoIncrementLostByReset ==
    AllOverNoWriteFailed =>
        \A u \in Users :
            userDocs[u] # None => userDocs[u][1].totalTokensUsed = LedgerTotal(usageLog, u)

(***************************************************************************)
(* Properties of rejected requests                                         *)
(***************************************************************************)
\* C32 as stated: a request that is rejected before it calls startRequest
\* (validation 400, user or conversation 404, admission 429, nothing to
\* regenerate 400) leaves the concurrency counter of every user unchanged.
C32_RejectionLeavesCounter ==
    [][\A r \in Requests :
          (/\ pc[r] # "returned"
           /\ pc'[r] = "returned"
           /\ hist[r].starts = 0
           /\ response'[r].status \in {400, 404, 429})
              => concurrentRequests' = concurrentRequests]_vars

(***************************************************************************)
(* Properties of the conversation's counters                               *)
(***************************************************************************)
\* no request is in progress, no database operation has failed and no client
\* has gone away: what remains are answered and failed upstream calls
QuietAfterUpstreamCalls ==
    \A r \in Requests :
        /\ pc[r] = "idle" \/ Completed(r)
        /\ task[r].at # "failed"
        /\ response[r].status # 500
        /\ stream[r].status # "cancelled"

\* C33 as stated: whenever no request on a conversation is in progress, the
\* conversation's messageCount is the number of persisted user and assistant
\* messages of the conversation, whatever mix of answered and failed upstream
\* calls the send and regenerate requests before had.
C33_MessageCountIsPersisted ==
    QuietAfterUpstreamCalls =>
        \A c \in ConversationIds :
            conversations[c] # None =>
                conversations[c][1].messageCount = CountOf(messages, c)

(***************************************************************************)
(* Properties of a regenerate request that is answered with an error       *)
(***************************************************************************)
\* C34 as stated: a regenerate request that ends with an error response (401,
\* 400, 404 or 429) has deleted no message and changed no counter of the
\* conversation: every rejection is decided before the most recent assistant
\* message is deleted.
C34_ErrorResponseDeletesNothing ==
    [][\A r \in Requests :
          (/\ pc[r] # "returned"
           /\ pc'[r] = "returned"
           /\ req'[r].kind = "regenerate"
           /\ response'[r].status \in {400, 401, 404, 429})
              => /\ hist[r].deleted = None
                 /\ hist[r].removed = 0
                 /\ hist[r].decrements = 0]_vars

(***************************************************************************)
(* Properties of the accounting done by the streaming step                 *)
(***************************************************************************)
\* the usage totals the Done event of a request carries
DoneUsage(r) == stream[r].wire[Len(stream[r].wire)].usage[1]

\* the requests whose stream has ended with Done
EndedDone == {r \in Requests : EndedWithDone(r)}

\* the handler of request r, not its streaming step, takes this step at label
HandlerAt(r, label) == pc[r] = label /\ pc'[r] # label

\* the persistence of request r, whose stream ended with Done, goes on from label
PersistsAt(r, label) ==
    /\ EndedWithDone(r)
    /\ task[r].at = label
    /\ task'[r].at \notin {label, "createMessage", "failed"}

C36_ReportedVersionIsPromptUsed ==
    (BuildCall /\ GivenInclude) =>
        LET out == lastCall.result IN
        /\ out.systemPromptVersion \in DOMAIN SYSTEM_PROMPTS
        /\ out.messages[1].content = SYSTEM_PROMPTS[out.systemPromptVersion]
        /\ (lastCall.options.systemPromptVersion # None
            /\ lastCall.options.systemPromptVersion[1] \notin DOMAIN SYSTEM_PROMPTS)
               => out.systemPromptVersion = CURRENT_PROMPT_VERSION

(***************************************************************************)
(* Properties of the relay under the splitting of the upstream bytes       *)
(***************************************************************************)
\* the Token events the bytes received so far stand for, whatever reads
\* delivered them: one per finished line that is a frame with content
TokensOf(bytes) ==
    LET deltas == Deltas(WholeLines(bytes, <<>>))
    IN [i \in 1 .. Len(deltas) |-> TokenEvent(deltas[i])]

\* the Done event the bytes received stand for
DoneOf(bytes) ==
    LET lines == WholeLines(bytes, <<>>)
        reported == ReportedUsage(lines)
    IN DoneEvent(Concat(Deltas(lines)),
                 [inputTokens |-> reported.prompt_tokens,
                  outputTokens |-> reported.completion_tokens,
                  totalTokens |-> reported.prompt_tokens + reported.completion_tokens])

\* C37: the events the relay emits are a function of the upstream bytes alone,
\* not of the way the bytes were split into reads: while it reads, the events
\* emitted are the Token events of the lines finished so far, and at the end of
\* the body they are followed by the one Done event of those lines.  A data line
\* split across reads yields one Token, never none and never two.
C37_SplitInvariance ==
    \A r \in Requests :
        /\ (stream[r].status = "open" /\ stream[r].at = "read") =>
              stream[r].wire = TokensOf(stream[r].received)
        /\ EndedWithDone(r) =>
              stream[r].wire =
                  Append(TokensOf(stream[r].received), DoneOf(stream[r].received))

\* the first body has been delivered one symbol per read, which cuts every
\* line of it several times, and the relay has emitted the two Tokens
C37_Witness ==
    \E r \in Requests :
        /\ stream[r].status = "open"
        /\ stream[r].at = "read"
        /\ stream[r].received =
              <<"data: ", "{", "a", "}", "\n", "data: ", "{", "b", "U", "}", "\n",
                "data: ", "[DONE]", "\n">>
        /\ stream[r].reads = Len(stream[r].received)
        /\ stream[r].wire = <<TokenEvent(<<"a">>), TokenEvent(<<"b">>)>>
        /\ stream[r].outputTokens = UsageFrame.completion_tokens


\* C38: when the body read by sendMessage has delivered an Error frame, then
\* once sendMessage has returned the error is surfaced through handleError
\* (the error state holds the message and onError was called), the
\* placeholder of the assistant's answer is no longer in the messages, and
\* isStreaming is false.
ErrorFrameReceived ==
    \E i \in 1 .. Len(client.received) : client.received[i].type = "error"

C38_ErrorFrameSurfaced ==
    (client.at = "over" /\ ErrorFrameReceived) =>
        /\ client.error # None
        /\ client.onErrorCalls > 0
        /\ \A i \in 1 .. Len(client.messages) : client.messages[i].id # "temp-assistant"
        /\ client.isStreaming = FALSE

====
